---- MODULE Spec2Model ----
(***************************************************************************)
(* A model of the RAG demo's orchestration logic:                          *)
(*   - StreamingRagPipeline.ask_stream / batch_ask_stream                   *)
(*     (src/rag/streaming_pipeline.py), specification Spec;                 *)
(*   - RagPipeline / AsyncRagPipeline corpus synchronisation                *)
(*     (src/rag/pipeline.py, src/rag/async_pipeline.py), specification      *)
(*     SyncSpec.                                                            *)
(* Text is modelled as a sequence of characters, so that concatenation,    *)
(* strip() and the substring test of the refusal phrase are computed as    *)
(* the code computes them.                                                  *)
(***************************************************************************)
EXTENDS Integers, Sequences, FiniteSets, TLC

VARIABLES
    mode,        \* "single": one ask_stream call; "batch": one batch_ask_stream call
    questions,   \* the questions asked (one for "single")
    useMemory,   \* ask_stream's use_memory argument
    hasAstream,  \* hasattr(self.llm, 'astream')
    rewriting,   \* config.ENABLE_QUERY_REWRITING
    qaChain,     \* self.qa_chain is set
    clock,       \* time.time()
    memory,      \* memory_manager's buffer of conversation turns
    ask,         \* per question: the state of its ask_stream generator
    bpc,         \* batch_ask_stream's position
    bout         \* the events batch_ask_stream has yielded to its caller

streamVars == <<mode, questions, useMemory, hasAstream, rewriting, qaChain,
                clock, memory, ask, bpc, bout>>

VARIABLES
    enterprise,   \* config.ENABLE_ENTERPRISE_MODE
    variant,      \* "sync": RagPipeline; "async": AsyncRagPipeline
    strictStore,  \* the store raises when given an empty list of chunks
    fs,           \* the files under the data directory
    index,        \* the entries of the Chroma collection (self.vector_store)
    vectorStore,  \* self.vector_store is not None
    allDocuments, \* self.all_documents
    bm25,         \* the documents self.bm25_retriever was built from
    spc,          \* position of the running pass ("idle": none is running)
    plan,         \* new_files, modified_files, deleted_files of the last pass
    dels,         \* the delete tasks of the pass
    upd,          \* the update tasks of the pass
    index0,       \* the collection when the last pass started
    failed,       \* files a read of which failed during the last pass
    muts,         \* inserts and deletes of the last pass
    rebuilt,      \* the last pass rebuilt the lexical retriever
    raised,       \* the last pass raised to its caller
    passes,       \* passes started
    faults,       \* failed reads so far
    changes,      \* changes of the directory so far
    quiet,        \* passes started since the last change or failed read (at most 2)
    dirty         \* the directory changed since the last pass started

syncVars == <<enterprise, variant, strictStore, fs, index, vectorStore,
              allDocuments, bm25, spc, plan, dels, upd, index0, failed, muts,
              rebuilt, raised, passes, faults, changes, quiet, dirty>>

VARIABLES
    rcall,       \* the retrieval function being called ("none": none)
    rpc,         \* its position
    rewriteOn,   \* config.ENABLE_QUERY_REWRITING
    original,    \* original_query
    response,    \* what llm.invoke does with the rewrite prompt
    queries,     \* the list of query variants
    concurrent,  \* the variants are retrieved by asyncio.gather
    categories,  \* the categories retrieval is scoped to
    corpus,      \* self.all_documents
    hits,        \* per variant: what its retrieval returned
    retrieved,   \* all_documents of the merger / retrieved_docs of the gate
    scorerOk,    \* reranker.compress_documents returned
    finalDocs,   \* final_docs
    surfaced     \* the caller got an exception or an ERROR event

retVars == <<rcall, rpc, rewriteOn, original, response, queries, concurrent,
             categories, corpus, hits, retrieved, scorerOk, finalDocs,
             surfaced>>

VARIABLES
    prior,       \* the memory buffer before the last add_conversation
    added        \* the turn the last add_conversation was given

memVars == <<prior, added>>

VARIABLES
    boot         \* the start of the API service: environment and progress

bootVars == <<boot>>

VARIABLES
    fan          \* the fan-out of one multi-query retrieval over the retrievers

fanVars == <<fan>>

VARIABLES
    passTask     \* the sync passes two /sync requests started as tasks

twoVars == <<passTask>>

VARIABLES
    pm           \* the PromptManager: prompt files, caches, what its calls returned

promptVars == <<pm>>

VARIABLES
    run          \* the coroutines of the async pipeline: their step, and where it runs

loopVars == <<run>>

vars == <<streamVars, syncVars, retVars, memVars, bootVars, fanVars, twoVars, promptVars, loopVars>>

\* what the steps of answering, of a sync pass and of retrieval leave alone
nonStreamVars == <<syncVars, retVars, memVars, bootVars, fanVars, twoVars, promptVars, loopVars>>
nonSyncVars == <<streamVars, retVars, memVars, bootVars, fanVars, twoVars, promptVars, loopVars>>
nonRetVars == <<streamVars, syncVars, memVars, bootVars, fanVars, twoVars, promptVars, loopVars>>

----------------------------------------------------------------------------
(* Bounds of the model *)

\* fragments (or characters of a blocking response) one generation call produces
MaxFrags == 2
\* the same, for the questions of a batch
BatchFrags == 0
\* questions in one batch
MaxBatch == 2
\* the clock advances at most this often during a run
MaxClock == 1
\* candidates the retrieval stage hands to generation
MaxDocs == 1
\* sync passes in one run
MaxPasses == 2
\* changes of the data directory in one run
MaxChanges == 1
\* failed file reads in one run
MaxFaults == 1

----------------------------------------------------------------------------
(* Text *)

\* the characters a generation call can produce: ordinary text "x", white
\* space, and "N", which stands for the refusal phrase (the phrase is one
\* unit of text here; a longer answer contains it without being equal to it)
Chars == {"x", "N", " "}

\* "根据提供的资料，我无法回答该问题": the phrase ask_stream looks for
RefusalPhrase == <<"N">>

\* "根据提供的资料，我无法回答该问题。": the message of the fallback's except branch
FallbackMessage == <<"N", ".">>

\* the questions a caller may ask; "" is the empty string
Questions == {"", "q"}

\* str.strip()
RECURSIVE Strip(_)
Strip(s) ==
    IF s = <<>> THEN <<>>
    ELSE IF Head(s) = " " THEN Strip(Tail(s))
    ELSE IF s[Len(s)] = " " THEN Strip(SubSeq(s, 1, Len(s) - 1))
    ELSE s

\* Python's  sub in s
Contains(s, sub) ==
    \E k \in 1..(Len(s) - Len(sub) + 1) : SubSeq(s, k, k + Len(sub) - 1) = sub

\* all sequences over S of length at most n
SeqsUpTo(S, n) == UNION {[1..k -> S] : k \in 0..n}

----------------------------------------------------------------------------
(* Events *)

\* a StreamEvent: its type, the chunk it carries, its timestamp, the
\* batch_index and batch_total that _collect_question_events puts in its
\* metadata (0: none) and the total_processed of its data (0: none).  by is
\* the question whose ask_stream yielded the event (0: batch_ask_stream).
Event(type, data, ts, idx) ==
    [type |-> type, data |-> data, ts |-> ts, idx |-> idx,
     total |-> 0, processed |-> 0, by |-> 0]

\* BatchIndex tagging every event with the index of the first question
BatchIndexFirst(i) == IF mode = "batch" THEN 1 ELSE 0

\* the index _collect_question_events tags question i's events with
BatchIndex(i) == IF mode = "batch" THEN i ELSE 0

\* the total _collect_question_events tags the events with
BatchTotal(n) == IF mode = "batch" THEN n ELSE 0

Ev(i, type, data) ==
    [Event(type, data, clock, BatchIndex(i))
        EXCEPT !.total = BatchTotal(Len(questions)), !.by = i]

\* _stream_text: one GENERATION_CHUNK per character, none for an empty text
StreamText(i, text) == [k \in 1..Len(text) |-> Ev(i, "chunk", <<text[k]>>)]

Types(evs) == [k \in 1..Len(evs) |-> evs[k].type]

\* the answer a caller assembles from the GENERATION_CHUNK events
RECURSIVE Assemble(_)
Assemble(evs) ==
    IF evs = <<>> THEN <<>>
    ELSE (IF Head(evs).type = "chunk" THEN Head(evs).data ELSE <<>>) \o Assemble(Tail(evs))

----------------------------------------------------------------------------
(* Configuration *)

\* config.RERANKER_TOP_N
RERANKER_TOP_N == 3

\* config.ENABLE_SHORT_TERM_MEMORY (the demo runs with it enabled)
ENABLE_SHORT_TERM_MEMORY == TRUE

\* config.SHORT_TERM_MEMORY_MAX_LENGTH, scaled to the model's text sizes
SHORT_TERM_MEMORY_MAX_LENGTH == 8

\* config.MIN_CONVERSATION_ROUNDS
MIN_CONVERSATION_ROUNDS == 1

----------------------------------------------------------------------------
(* Conversational memory (memory_manager) *)

QuestionLen(q) == IF q = "" THEN 0 ELSE 1

RECURSIVE TotalChars(_)
TotalChars(mem) ==
    IF mem = <<>> THEN 0
    ELSE QuestionLen(Head(mem).question) + Len(Head(mem).answer) + TotalChars(Tail(mem))

\* eviction that removes one turn at most
EvictOnce(mem) ==
    IF TotalChars(mem) > SHORT_TERM_MEMORY_MAX_LENGTH /\ Len(mem) > MIN_CONVERSATION_ROUNDS
    THEN Tail(mem)
    ELSE mem

\* eviction that goes on below the floor
RECURSIVE EvictBelowFloor(_)
EvictBelowFloor(mem) ==
    IF TotalChars(mem) > SHORT_TERM_MEMORY_MAX_LENGTH /\ mem # <<>>
    THEN EvictBelowFloor(Tail(mem))
    ELSE mem

\* evict the oldest turns while over budget and above the floor
RECURSIVE Evict(_)
Evict(mem) ==
    IF TotalChars(mem) > SHORT_TERM_MEMORY_MAX_LENGTH /\ Len(mem) > MIN_CONVERSATION_ROUNDS
    THEN Evict(Tail(mem))
    ELSE mem

\* memory_manager.add_conversation(question, answer, metadata)
AddConversation(mem, question, answer, source, ndocs) ==
    Evict(Append(mem, [question |-> question, answer |-> answer,
                       source |-> source, ndocs |-> ndocs]))

----------------------------------------------------------------------------
(* ask_stream: one generator per question *)

N == Len(questions)

FragBudget == IF mode = "batch" THEN BatchFrags ELSE MaxFrags

\* the tasks of a batch run between create_task and gather's return
Running(i) == i \in 1..N /\ (mode = "single" \/ bpc = "gather")

Min(a, b) == IF a < b THEN a ELSE b

\* pc: where the generator stands; ndocs: len(final_docs); nfrag: fragments
\* the current generation call has produced; answer: complete_answer; buf:
\* answer_events; fallback: _stream_no_result_answer was entered; failure: the
\* call that raised, if any; out: the events yielded so far; reads: the
\* memory contexts the generation prompts were built from; calls: the calls
\* of self.llm.astream and of self.llm.invoke made so far
AskInit ==
    [pc |-> "start", ndocs |-> 0, nfrag |-> 0, answer |-> <<>>,
     buf |-> <<>>, fallback |-> FALSE, failure |-> "none", out |-> <<>>,
     reads |-> <<>>, calls |-> [astream |-> 0, invoke |-> 0]]

\* lines 362-381 and 680-699: the generation call, self.llm.astream when the
\* llm has it and the blocking self.llm.invoke otherwise
CallLlm(a) ==
    IF hasAstream
    THEN [a EXCEPT !.calls.astream = @ + 1]
    ELSE [a EXCEPT !.calls.invoke = @ + 1]

\* AskStart without the qa_chain check
AskStartUnchecked(i) ==
    /\ Running(i)
    /\ ask[i].pc = "start"
    /\ ask' = [ask EXCEPT ![i].out = Append(@, Ev(i, "processing", <<>>)),
                          ![i].pc = "retrieve"]
    /\ UNCHANGED <<mode, questions, useMemory, hasAstream, rewriting, qaChain,
                   clock, memory, bpc, bout>>

\* lines 71-85: the qa_chain check, then the PROCESSING event
AskStart(i) ==
    /\ Running(i)
    /\ ask[i].pc = "start"
    /\ IF ~qaChain
       THEN ask' = [ask EXCEPT ![i].out = Append(@, Ev(i, "error", <<>>)),
                               ![i].failure = "qa_chain",
                               ![i].pc = "done"]
       ELSE ask' = [ask EXCEPT ![i].out = Append(@, Ev(i, "processing", <<>>)),
                               ![i].pc = "retrieve"]
    /\ UNCHANGED <<mode, questions, useMemory, hasAstream, rewriting, qaChain,
                   clock, memory, bpc, bout>>

\* _stream_no_result_answer up to its generation call (lines 642-682)
EnterFallback(a, i) ==
    CallLlm([a EXCEPT !.out = Append(@, Ev(i, "start", <<>>)),
                      !.pc = "fb", !.nfrag = 0, !.answer = <<>>, !.fallback = TRUE])

\* _generate_streaming_answer up to its generation call (lines 315-364);
\* ask_stream collects its events in answer_events
EnterGrounded(a, i) ==
    CallLlm([a EXCEPT !.buf = <<Ev(i, "start", <<>>)>>,
                      !.pc = "kb", !.nfrag = 0, !.answer = <<>>])

\* memory_manager.get_conversation_context(include_count=None): the
\* questions and answers of all turns, oldest first
GetConversationContext(mem) ==
    [k \in DOMAIN mem |-> [question |-> mem[k].question, answer |-> mem[k].answer]]

\* lines 325-333 and 648-653: a generation that has just been entered reads
\* the memory context for its prompt
ReadContext(a, mem) ==
    IF (useMemory /\ ENABLE_SHORT_TERM_MEMORY) /\ a.pc \in {"kb", "fb"}
    THEN [a EXCEPT !.reads = Append(@, GetConversationContext(mem))]
    ELSE a

\* lines 137-159: the branch on final_docs
Dispatch(a, i) == IF a.ndocs > 0 THEN EnterGrounded(a, i) ELSE EnterFallback(a, i)

\* lines 88-119: rewriting, retrieval and reranking return final_docs.  With
\* rewriting on, a failed rewrite, query or rerank is caught and retrieval
\* returns; the reranked or the merged list is cut to RERANKER_TOP_N.
RetrieveReturns(i) ==
    /\ Running(i)
    /\ ask[i].pc = "retrieve"
    /\ \E n \in 0..MaxDocs :
         ask' = [ask EXCEPT ![i] =
                    ReadContext(Dispatch([@ EXCEPT !.ndocs = Min(n, RERANKER_TOP_N)], i), memory)]
    /\ UNCHANGED <<mode, questions, useMemory, hasAstream, rewriting, qaChain,
                   clock, memory, bpc, bout>>

\* lines 108-119, 168-173: without rewriting the qa_chain's retriever is
\* awaited directly, and what it raises reaches ask_stream's except branch
RetrieveRaises(i) ==
    /\ Running(i)
    /\ ask[i].pc = "retrieve"
    /\ ~rewriting
    /\ ask' = [ask EXCEPT ![i].out = Append(@, Ev(i, "error", <<>>)),
                          ![i].failure = "retrieval",
                          ![i].pc = "done"]
    /\ UNCHANGED <<mode, questions, useMemory, hasAstream, rewriting, qaChain,
                   clock, memory, bpc, bout>>

\* MemoryOn whatever use_memory says
MemoryOnAlways == ENABLE_SHORT_TERM_MEMORY

MemoryOn == useMemory /\ ENABLE_SHORT_TERM_MEMORY

\* Inspect with the test  answer == phrase  in place of  phrase in answer
InspectEquals(a, i) ==
    IF Assemble(a.buf) = RefusalPhrase
    THEN EnterFallback(a, i)
    ELSE [a EXCEPT !.out = @ \o a.buf, !.pc = "complete"]

\* Inspect yielding the collected events whatever the answer says
InspectAlwaysYields(a, i) ==
    [a EXCEPT !.out = @ \o a.buf, !.pc = "complete"]

\* lines 148-155: ask_stream inspects the answer assembled from answer_events;
\* on the refusal phrase it discards them and runs the fallback, otherwise it
\* yields them
Inspect(a, i) ==
    IF Contains(Assemble(a.buf), RefusalPhrase)
    THEN EnterFallback(a, i)
    ELSE [a EXCEPT !.out = @ \o a.buf, !.pc = "complete"]

\* lines 394-405: the grounded answer is saved when it is not empty
SaveGrounded(mem, a, i) ==
    IF MemoryOn /\ a.answer # <<>>
    THEN AddConversation(mem, questions[i], Strip(a.answer), "knowledge_base", a.ndocs)
    ELSE mem

\* lines 712-723: the fallback answer is saved when question and answer are not empty
SaveFallback(mem, a, i) ==
    IF MemoryOn /\ questions[i] # "" /\ a.answer # <<>>
    THEN AddConversation(mem, questions[i], Strip(a.answer), "llm_knowledge", 0)
    ELSE mem

\* the except branch making the turn visible before its answer is written
SaveFailureTorn(mem, i) ==
    IF MemoryOn /\ questions[i] # ""
    THEN Append(mem, [question |-> questions[i], answer |-> <<>>,
                      source |-> "fallback", ndocs |-> 0])
    ELSE mem

\* lines 742-754: the except branch saves the fallback message
SaveFailure(mem, i) ==
    IF MemoryOn /\ questions[i] # ""
    THEN AddConversation(mem, questions[i], FallbackMessage, "fallback", 0)
    ELSE mem

\* lines 364-378: llm.astream yields a fragment; an empty one is skipped
KbFragment(i) ==
    /\ Running(i)
    /\ ask[i].pc = "kb"
    /\ hasAstream
    /\ ask[i].nfrag < FragBudget
    /\ \E frag \in {<<>>} \cup {<<c>> : c \in Chars} :
         ask' = [ask EXCEPT ![i].nfrag = @ + 1,
                            ![i].answer = @ \o frag,
                            ![i].buf = IF frag = <<>> THEN @
                                       ELSE Append(@, Ev(i, "chunk", frag))]
    /\ UNCHANGED <<mode, questions, useMemory, hasAstream, rewriting, qaChain,
                   clock, memory, bpc, bout>>

\* lines 394-421, 148-155: llm.astream is exhausted; the answer is saved,
\* GENERATION_END is produced, and ask_stream inspects the answer
KbEnd(i) ==
    /\ Running(i)
    /\ ask[i].pc = "kb"
    /\ hasAstream
    /\ memory' = SaveGrounded(memory, ask[i], i)
    /\ ask' = [ask EXCEPT ![i] =
                  ReadContext(Inspect([@ EXCEPT !.buf = Append(@, Ev(i, "end", <<>>))], i), memory')]
    /\ UNCHANGED <<mode, questions, useMemory, hasAstream, rewriting, qaChain,
                   clock, bpc, bout>>

\* lines 381-421, 148-155: the blocking llm.invoke returns; its stripped
\* content is streamed character by character
KbInvoke(i) ==
    /\ Running(i)
    /\ ask[i].pc = "kb"
    /\ ~hasAstream
    /\ \E resp \in SeqsUpTo(Chars, FragBudget) :
         LET a == [ask[i] EXCEPT !.answer = Strip(resp),
                                 !.buf = @ \o StreamText(i, Strip(resp)) \o <<Ev(i, "end", <<>>)>>]
         IN /\ memory' = SaveGrounded(memory, a, i)
            /\ ask' = [ask EXCEPT ![i] = ReadContext(Inspect(a, i), memory')]
    /\ UNCHANGED <<mode, questions, useMemory, hasAstream, rewriting, qaChain,
                   clock, bpc, bout>>

\* lines 423-428, 148-155: the generation call raises; _generate_streaming_answer
\* produces an ERROR event and ends, and ask_stream inspects what it collected
KbFail(i) ==
    /\ Running(i)
    /\ ask[i].pc = "kb"
    /\ ask' = [ask EXCEPT ![i] =
                  ReadContext(Inspect([@ EXCEPT !.buf = Append(@, Ev(i, "error", <<>>)),
                                                !.failure = "generation"], i), memory)]
    /\ UNCHANGED <<mode, questions, useMemory, hasAstream, rewriting, qaChain,
                   clock, memory, bpc, bout>>

\* lines 682-696: a fragment of the fallback generation is yielded as it arrives
FbFragment(i) ==
    /\ Running(i)
    /\ ask[i].pc = "fb"
    /\ hasAstream
    /\ ask[i].nfrag < FragBudget
    /\ \E frag \in {<<>>} \cup {<<c>> : c \in Chars} :
         ask' = [ask EXCEPT ![i].nfrag = @ + 1,
                            ![i].answer = @ \o frag,
                            ![i].out = IF frag = <<>> THEN @
                                       ELSE Append(@, Ev(i, "chunk", frag))]
    /\ UNCHANGED <<mode, questions, useMemory, hasAstream, rewriting, qaChain,
                   clock, memory, bpc, bout>>

\* lines 712-730: the fallback generation is exhausted
FbEnd(i) ==
    /\ Running(i)
    /\ ask[i].pc = "fb"
    /\ hasAstream
    /\ memory' = SaveFallback(memory, ask[i], i)
    /\ ask' = [ask EXCEPT ![i].out = Append(@, Ev(i, "end", <<>>)),
                          ![i].pc = "complete"]
    /\ UNCHANGED <<mode, questions, useMemory, hasAstream, rewriting, qaChain,
                   clock, bpc, bout>>

\* lines 699-730: the blocking fallback call returns
FbInvoke(i) ==
    /\ Running(i)
    /\ ask[i].pc = "fb"
    /\ ~hasAstream
    /\ \E resp \in SeqsUpTo(Chars, FragBudget) :
         LET a == [ask[i] EXCEPT !.answer = Strip(resp),
                                 !.out = @ \o StreamText(i, Strip(resp)) \o <<Ev(i, "end", <<>>)>>,
                                 !.pc = "complete"]
         IN /\ memory' = SaveFallback(memory, a, i)
            /\ ask' = [ask EXCEPT ![i] = a]
    /\ UNCHANGED <<mode, questions, useMemory, hasAstream, rewriting, qaChain,
                   clock, bpc, bout>>

\* lines 732-760: the fallback generation raises; the fallback message is
\* yielded as one chunk, saved, and GENERATION_END follows
FbFail(i) ==
    /\ Running(i)
    /\ ask[i].pc = "fb"
    /\ memory' = SaveFailure(memory, i)
    /\ ask' = [ask EXCEPT ![i].out = @ \o <<Ev(i, "chunk", FallbackMessage), Ev(i, "end", <<>>)>>,
                          ![i].failure = IF @ = "none" THEN "fallback_generation" ELSE @,
                          ![i].pc = "complete"]
    /\ UNCHANGED <<mode, questions, useMemory, hasAstream, rewriting, qaChain,
                   clock, bpc, bout>>

\* Complete with the COMPLETE event left out
CompleteWithoutEvent(i) ==
    /\ Running(i)
    /\ ask[i].pc = "complete"
    /\ ask' = [ask EXCEPT ![i].pc = "done"]
    /\ UNCHANGED <<mode, questions, useMemory, hasAstream, rewriting, qaChain,
                   clock, memory, bpc, bout>>

\* lines 162-166: the COMPLETE event
Complete(i) ==
    /\ Running(i)
    /\ ask[i].pc = "complete"
    /\ ask' = [ask EXCEPT ![i].out = Append(@, Ev(i, "complete", <<>>)),
                          ![i].pc = "done"]
    /\ UNCHANGED <<mode, questions, useMemory, hasAstream, rewriting, qaChain,
                   clock, memory, bpc, bout>>

\* time passes between two calls of time.time()
Tick ==
    /\ clock < MaxClock
    /\ \E i \in 1..N : ask[i].pc # "done"
    /\ clock' = clock + 1
    /\ UNCHANGED <<mode, questions, useMemory, hasAstream, rewriting, qaChain,
                   memory, ask, bpc, bout>>

----------------------------------------------------------------------------
(* batch_ask_stream *)

\* SortByTimestamp putting the later events first
SortByTimestampDescending(evs) ==
    LET RECURSIVE Down(_)
        Down(t) == IF t < 0 THEN <<>>
                   ELSE SelectSeq(evs, LAMBDA e : e.ts = t) \o Down(t - 1)
    IN Down(MaxClock)

\* list.sort(key=lambda e: e.timestamp): stable, ascending
SortByTimestamp(evs) ==
    LET RECURSIVE From(_)
        From(t) == IF t > MaxClock THEN <<>>
                   ELSE SelectSeq(evs, LAMBDA e : e.ts = t) \o From(t + 1)
    IN From(0)

\* all_events.extend(result) over the gathered results, in task order
RECURSIVE Concat(_, _)
Concat(f, n) == IF n = 0 THEN <<>> ELSE Concat(f, n - 1) \o f[n].out

\* MergedStream giving up on the whole batch when one question ended in Error
MergedStreamAborting(results, n) ==
    IF \E i \in 1..n : results[i].out[Len(results[i].out)].type = "error"
    THEN <<Event("error", <<>>, clock, 0)>>
    ELSE SortByTimestamp(Concat(results, n)) \o <<Event("complete", <<>>, clock, 0)>>

\* lines 537-553: successful_count, the gathered results that are event
\* lists and not exceptions
SuccessfulCount(results, n) == Cardinality({i \in 1..n : results[i].pc = "done"})

\* lines 535-572: what batch_ask_stream yields once the results are gathered
MergedStream(results, n) ==
    SortByTimestamp(Concat(results, n))
        \o <<[Event("complete", <<>>, clock, 0)
                 EXCEPT !.processed = SuccessfulCount(results, n)]>>

\* lines 510-529: nothing is yielded for an empty list; otherwise PROCESSING
\* is yielded and one task per question is created
BatchStart ==
    /\ mode = "batch"
    /\ bpc = "start"
    /\ IF questions = <<>>
       THEN bpc' = "done" /\ bout' = bout
       ELSE bpc' = "gather" /\ bout' = Append(bout, Event("processing", <<>>, clock, 0))
    /\ UNCHANGED <<mode, questions, useMemory, hasAstream, rewriting, qaChain,
                   clock, memory, ask>>

\* lines 532-572: gather returns every task's event list (no task raises:
\* _collect_question_events returns what ask_stream yielded); the lists are
\* concatenated, sorted by timestamp and yielded, then COMPLETE
BatchMerge ==
    /\ mode = "batch"
    /\ bpc = "gather"
    /\ \A i \in 1..N : ask[i].pc = "done"
    /\ bout' = bout \o MergedStream(ask, N)
    /\ bpc' = "done"
    /\ UNCHANGED <<mode, questions, useMemory, hasAstream, rewriting, qaChain,
                   clock, memory, ask>>

----------------------------------------------------------------------------
(* Corpus synchronisation: files, index entries, data sources *)

\* the files of the model, as path segments, in the order a scan lists them
PathA == <<"data", "a.txt">>
PathT == <<"data", "technical", "t.txt">>
Paths == <<PathA, PathT>>
PathSet == {PathA, PathT}

\* a file's content is a sequence of paragraphs; " " is a blank paragraph
FileContents == {<<" ">>, <<"a">>, <<"a", "b">>}
NoFile == [exists |-> FALSE, content |-> <<>>]
Files == {NoFile} \cup {[exists |-> TRUE, content |-> c] : c \in FileContents}

\* text_splitter.split_documents: one chunk per paragraph, blank text gives none
Split(content) == SelectSeq(content, LAMBDA par : par # " ")

\* hashlib.md5(content).hexdigest(), taken as free of collisions; NoHash is a
\* metadata record without the file_hash key
Hash(content) == <<"md5", content>>
NoHash == <<>>

\* config.py lines 24-76, 134, 140
ENTERPRISE_DATA_SOURCES == <<
    [name |-> "main",      path |-> <<"data">>,              category |-> "general"],
    [name |-> "technical", path |-> <<"data", "technical">>, category |-> "technical"],
    [name |-> "product",   path |-> <<"data", "product">>,   category |-> "product"] >>
ENABLE_FILE_MONITORING == TRUE
AUTO_DELETE_MISSING_FILES == TRUE
\* a chunk without the category key
NoCategory == "none"

\* pipeline.py lines 319-339
GetEnterpriseDataSources ==
    IF enterprise THEN ENTERPRISE_DATA_SOURCES
    ELSE << [name |-> "legacy", path |-> <<"data">>, category |-> "general"] >>

\* glob(os.path.join(source_path, "**", pattern), recursive=True) / os.walk
IsUnder(root, p) == Len(p) > Len(root) /\ SubSeq(p, 1, Len(root)) = root

\* pipeline.py lines 341-373 (and the os.walk of lines 422-427): per source,
\* the existing files under its root
ScanEnterpriseFiles ==
    [k \in 1..Len(GetEnterpriseDataSources) |->
        SelectSeq(Paths, LAMBDA p : fs[p].exists
                                    /\ IsUnder(GetEnterpriseDataSources[k].path, p))]

RECURSIVE Flatten(_, _)
Flatten(f, n) == IF n = 0 THEN <<>> ELSE Flatten(f, n - 1) \o f[n]

\* lines 600-603: all_current_files, one occurrence per source that lists the file
AllCurrentFiles(scan) == Flatten(scan, Len(scan))

Range(seq) == {seq[k] : k \in DOMAIN seq}

\* lines 669-686: the configuration of the first source that lists the file
GetSourceConfigForFile(p, scan) ==
    LET ks == {k \in DOMAIN scan : p \in Range(scan[k])}
    IN  IF ks = {} THEN [name |-> "", path |-> <<>>, category |-> NoCategory]
        ELSE GetEnterpriseDataSources[CHOOSE k \in ks : \A j \in ks : k <= j]

\* an entry of the Chroma collection: a chunk and its metadata.  stamp names
\* the update task of the running pass that inserted it (0: any earlier
\* insertion); it stands for the entry's id in the ids an update task holds.
Entry(source, text, file_hash, category, chunk_id, stamp) ==
    [source |-> source, text |-> text, file_hash |-> file_hash,
     category |-> category, chunk_id |-> chunk_id, stamp |-> stamp]

EntriesOf(idx, p) == SelectSeq(idx, LAMBDA e : e.source = p)

Unstamp(idx) == [k \in DOMAIN idx |-> [idx[k] EXCEPT !.stamp = 0]]

\* lines 129-157
GetProcessedSources ==
    IF ~vectorStore THEN {} ELSE {index[k].source : k \in DOMAIN index}

\* lines 213-233; infoOk: _get_file_info could read the file
IsFileModified(p, infoOk) ==
    IF ~infoOk THEN FALSE
    ELSE IF ~vectorStore \/ EntriesOf(index, p) = <<>> THEN TRUE
    ELSE Hash(fs[p].content) # EntriesOf(index, p)[1].file_hash

\* delete_documents_by_source keeping all but the first entry of the file
DeleteFirstEntryOnly(idx, p) ==
    LET ks == {k \in DOMAIN idx : idx[k].source = p}
    IN  IF ks = {} THEN idx
        ELSE LET k1 == CHOOSE k \in ks : \A j \in ks : k <= j
             IN  SubSeq(idx, 1, k1 - 1) \o SubSeq(idx, k1 + 1, Len(idx))

\* lines 235-267: the collection after delete_documents_by_source(p)
DeleteDocumentsBySource(idx, p) == SelectSeq(idx, LAMBDA e : e.source # p)

\* lines 734-737 (update): chunk_id = prefix + md5(file_path) + "_" + i
ChunkIdByPosition(p, i) == <<"pos", p, i>>
\* lines 804-807 (new): chunk_id = prefix + md5(source_path + "_" + page_content)
ChunkIdByContent(p, text) == <<"md5", p, text>>

\* the chunks _update_enterprise_document / update_document adds for file p;
\* the category is written together with the file information only
UpdateChunks(p, infoOk, cat, stamp) ==
    LET texts == Split(fs[p].content)
    IN  [i \in 1..Len(texts) |->
            Entry(p, texts[i],
                  IF infoOk THEN Hash(fs[p].content) ELSE NoHash,
                  IF infoOk /\ enterprise THEN cat ELSE NoCategory,
                  ChunkIdByPosition(p, i - 1), stamp)]

\* the chunks _process_new_enterprise_files (lines 476-575 in legacy mode)
\* adds for one occurrence of file p among the new files
NewChunks(p, infoOk, cat) ==
    LET texts == Split(fs[p].content)
    IN  [i \in 1..Len(texts) |->
            Entry(p, texts[i],
                  IF infoOk THEN Hash(fs[p].content) ELSE NoHash,
                  IF infoOk /\ enterprise THEN cat ELSE NoCategory,
                  ChunkIdByContent(p, texts[i]), 0)]

PlanEmpty(pl) == pl.new = <<>> /\ pl.modified = <<>> /\ pl.deleted = <<>>

\* the next step of the pass, from step n on: 1 deletes (lines 634-641),
\* 2 updates (643-650), 3 new files (652-655), then the rebuild (657-665)
PhaseFrom(n, pl) ==
    IF n <= 1 /\ pl.deleted # <<>> THEN "delete"
    ELSE IF n <= 2 /\ pl.modified # <<>> THEN "update"
    ELSE IF n <= 3 /\ pl.new # <<>> THEN "new"
    ELSE IF PlanEmpty(pl) THEN "idle" ELSE "rebuild"

----------------------------------------------------------------------------
(* Corpus synchronisation: one pass of sync_data_directory *)

\* the documents the lexical retriever is built from
Docs(idx) == [k \in DOMAIN idx |-> [source |-> idx[k].source, text |-> idx[k].text]]

\* async_pipeline.py lines 883-896: zip pairs the files with the results by
\* position; the files whose result is True are the modified ones
ZipModified(files, results) ==
    LET n == Min(Len(files), Len(results))
        ks == SelectSeq([k \in 1..n |-> k], LAMBDA k : results[k])
    IN  [j \in DOMAIN ks |-> files[ks[j]]]

\* AsyncModified pairing the results with all listed files
AsyncModifiedUnfiltered(cur, processed, F) ==
    LET tasks == SelectSeq(cur, LAMBDA p : p \in processed /\ ENABLE_FILE_MONITORING)
        results == [k \in DOMAIN tasks |-> IsFileModified(tasks[k], tasks[k] \notin F)]
    IN  ZipModified(cur, results)

\* async_pipeline.py lines 873-896: one _is_file_modified_async task per
\* listed file with a stored record, gathered (gather keeps the order of the
\* tasks) and paired with the list of those files built a second time
AsyncModified(cur, processed, F) ==
    LET tasks == SelectSeq(cur, LAMBDA p : p \in processed /\ ENABLE_FILE_MONITORING)
        results == [k \in DOMAIN tasks |-> IsFileModified(tasks[k], tasks[k] \notin F)]
    IN  ZipModified(SelectSeq(cur, LAMBDA p : p \in processed /\ ENABLE_FILE_MONITORING),
                    results)

\* lines 594-632 (legacy: 418-456; async: 848-904): scan, read the processed
\* sources, classify every listed file, collect the missing ones.  F: the
\* files whose _get_file_info fails during the classification.
Classify ==
    /\ spc = "idle"
    /\ passes < MaxPasses
    /\ \E F \in SUBSET PathSet :
        LET scan == ScanEnterpriseFiles
            cur == AllCurrentFiles(scan)
            processed == GetProcessedSources
            checked == {p \in Range(cur) : p \in processed /\ ENABLE_FILE_MONITORING}
            pl == [new |-> SelectSeq(cur, LAMBDA p : p \notin processed),
                   modified |-> IF variant = "async"
                                THEN AsyncModified(cur, processed, F)
                                ELSE SelectSeq(cur, LAMBDA p :
                                         p \in checked /\ IsFileModified(p, p \notin F)),
                   deleted |-> IF AUTO_DELETE_MISSING_FILES
                               THEN SelectSeq(Paths, LAMBDA p :
                                        p \in processed /\ p \notin Range(cur))
                               ELSE <<>>]
        IN  /\ F \subseteq checked
            /\ faults + Cardinality(F) <= MaxFaults
            /\ plan' = pl
            /\ dels' = [k \in 1..Len(pl.deleted) |-> "todo"]
            /\ upd' = [k \in 1..Len(pl.modified) |-> [pc |-> "get", ids |-> {}, docs |-> <<>>]]
            /\ failed' = F
            /\ faults' = faults + Cardinality(F)
            /\ quiet' = IF F = {} THEN Min(quiet + 1, 2) ELSE 0
            /\ spc' = PhaseFrom(1, pl)
    /\ index0' = index
    /\ muts' = 0
    /\ rebuilt' = FALSE
    /\ raised' = FALSE
    /\ passes' = passes + 1
    /\ dirty' = FALSE
    /\ UNCHANGED <<enterprise, variant, strictStore, fs, index, vectorStore,
                   allDocuments, bm25, changes>>
    /\ UNCHANGED nonSyncVars

\* lines 407-414 (async 257-264): in legacy mode the pass returns at once
\* when the data directory does not exist; a directory without a file may
\* have been removed itself
LegacyRootMissing ==
    /\ spc = "idle"
    /\ passes < MaxPasses
    /\ ~enterprise
    /\ \A p \in PathSet : ~fs[p].exists
    /\ plan' = [new |-> <<>>, modified |-> <<>>, deleted |-> <<>>]
    /\ dels' = <<>>
    /\ upd' = <<>>
    /\ failed' = {}
    /\ quiet' = Min(quiet + 1, 2)
    /\ index0' = index
    /\ muts' = 0
    /\ rebuilt' = FALSE
    /\ raised' = FALSE
    /\ passes' = passes + 1
    /\ dirty' = FALSE
    /\ UNCHANGED <<enterprise, variant, strictStore, fs, index, vectorStore,
                   allDocuments, bm25, spc, faults, changes>>
    /\ UNCHANGED nonSyncVars

\* lines 634-641 (async 906-916): delete_documents_by_source for one missing
\* file; the async variant runs these tasks concurrently (distinct paths)
DeleteTask(k) ==
    /\ spc = "delete"
    /\ k \in DOMAIN dels
    /\ dels[k] = "todo"
    /\ variant = "sync" => \A j \in 1..(k - 1) : dels[j] = "done"
    /\ index' = DeleteDocumentsBySource(index, plan.deleted[k])
    /\ muts' = muts + (IF index' # index THEN 1 ELSE 0)
    /\ dels' = [dels EXCEPT ![k] = "done"]
    /\ spc' = IF \A j \in DOMAIN dels : dels'[j] = "done" THEN PhaseFrom(2, plan) ELSE spc
    /\ UNCHANGED <<enterprise, variant, strictStore, fs, vectorStore, allDocuments,
                   bm25, plan, upd, index0, failed, rebuilt, raised, passes,
                   faults, changes, quiet, dirty>>
    /\ UNCHANGED nonSyncVars

\* after a step of an update task: the pass moves on when all tasks returned
AfterUpdateStep(u2, idx2) ==
    IF \A j \in DOMAIN u2 : u2[j].pc = "done"
    THEN spc' = PhaseFrom(3, plan) /\ index' = Unstamp(idx2)
    ELSE spc' = spc /\ index' = idx2

\* update tasks run one after the other in the sync variant (lines 646-650)
\* and concurrently in the async one (asyncio.gather, lines 921-922)
UpdateTurn(k) ==
    /\ spc = "update"
    /\ k \in DOMAIN upd
    /\ variant = "sync" => \A j \in 1..(k - 1) : upd[j].pc = "done"

\* delete_documents_by_source, lines 251-258 (async 167-176): read the ids of
\* the file's entries; with none, the update returns False (lines 702-704)
UpdateGet(k) ==
    /\ UpdateTurn(k)
    /\ upd[k].pc = "get"
    /\ LET p == plan.modified[k]
           ids == {index[j].stamp : j \in {j \in DOMAIN index : index[j].source = p}}
           u == IF ids = {} THEN [pc |-> "done", ids |-> {}, docs |-> <<>>]
                            ELSE [pc |-> "del", ids |-> ids, docs |-> <<>>]
       IN  /\ upd' = [upd EXCEPT ![k] = u]
           /\ AfterUpdateStep(upd', index)
    /\ UNCHANGED <<enterprise, variant, strictStore, fs, vectorStore, allDocuments,
                   bm25, plan, dels, index0, failed, muts, rebuilt, raised, passes,
                   faults, changes, quiet, dirty>>
    /\ UNCHANGED nonSyncVars

\* delete_documents_by_source, lines 260-263 (async 178-183): delete the ids
\* read (ids no longer in the collection are ignored)
UpdateDelete(k) ==
    /\ UpdateTurn(k)
    /\ upd[k].pc = "del"
    /\ LET p == plan.modified[k]
       IN  index' = SelectSeq(index, LAMBDA e : ~(e.source = p /\ e.stamp \in upd[k].ids))
    /\ upd' = [upd EXCEPT ![k].pc = "load"]
    /\ muts' = muts + 1
    /\ UNCHANGED <<enterprise, variant, strictStore, fs, vectorStore, allDocuments,
                   bm25, spc, plan, dels, index0, failed, rebuilt, raised, passes,
                   faults, changes, quiet, dirty>>
    /\ UNCHANGED nonSyncVars

\* lines 706-747 (legacy 287-317; async 965-1012): find the source
\* configuration, load the file, read its information, split, add the chunks.
\* Any exception (the load fails, the store rejects an empty list) makes the
\* update return False.
UpdateInsert(k) ==
    /\ UpdateTurn(k)
    /\ upd[k].pc = "load"
    /\ \E outcome \in {"ok", "load_fails", "info_fails"} :
        LET p == plan.modified[k]
            cfg == GetSourceConfigForFile(p, ScanEnterpriseFiles)
            chunks == IF outcome = "load_fails" \/ cfg.name = "" THEN <<>>
                      ELSE UpdateChunks(p, outcome = "ok", cfg.category, k)
        IN  /\ outcome # "ok" => faults < MaxFaults
            /\ upd' = [upd EXCEPT ![k].pc = "done"]
            /\ AfterUpdateStep(upd', index \o chunks)
            /\ muts' = muts + (IF chunks # <<>> THEN 1 ELSE 0)
            /\ failed' = IF outcome = "ok" THEN failed ELSE failed \cup {p}
            /\ faults' = faults + (IF outcome = "ok" THEN 0 ELSE 1)
            /\ quiet' = IF outcome = "ok" THEN quiet ELSE 0
    /\ UNCHANGED <<enterprise, variant, strictStore, fs, vectorStore, allDocuments,
                   bm25, plan, dels, index0, rebuilt, raised, passes, changes, dirty>>
    /\ UNCHANGED nonSyncVars

\* async_pipeline.py lines 972-977: the update task of the async variant has
\* loaded the file (the first read) and awaits; docs is the content it read
UpdateLoad(k) ==
    /\ UpdateTurn(k)
    /\ upd[k].pc = "load"
    /\ variant = "async"
    /\ GetSourceConfigForFile(plan.modified[k], ScanEnterpriseFiles).name # ""
    /\ upd' = [upd EXCEPT ![k].pc = "info", ![k].docs = fs[plan.modified[k]].content]
    /\ UNCHANGED <<enterprise, variant, strictStore, fs, index, vectorStore,
                   allDocuments, bm25, spc, plan, dels, index0, failed, muts,
                   rebuilt, raised, passes, faults, changes, quiet, dirty>>
    /\ UNCHANGED nonSyncVars

\* another process writes the file while an update task stands between its
\* load and its _get_file_info_async
WriteDuringUpdate(p, c) ==
    /\ spc = "update"
    /\ \E k \in DOMAIN upd :
          plan.modified[k] = p /\ upd[k].pc = "info" /\ upd[k].docs = fs[p].content
    /\ fs[p].content # c
    /\ fs' = [fs EXCEPT ![p] = [exists |-> TRUE, content |-> c]]
    /\ quiet' = 0
    /\ dirty' = TRUE
    /\ UNCHANGED <<enterprise, variant, strictStore, index, vectorStore,
                   allDocuments, bm25, spc, plan, dels, upd, index0, failed, muts,
                   rebuilt, raised, passes, faults, changes>>
    /\ UNCHANGED nonSyncVars

\* the chunks of the loaded documents docs with the file information read
\* from the file as it is now (async_pipeline.py lines 979-1003)
LoadedChunks(p, docs, cat, stamp) ==
    LET texts == Split(docs)
    IN  [i \in 1..Len(texts) |->
            Entry(p, texts[i], Hash(fs[p].content),
                  IF enterprise THEN cat ELSE NoCategory,
                  ChunkIdByPosition(p, i - 1), stamp)]

\* async_pipeline.py lines 979-1008: _get_file_info_async (the second read),
\* split of the loaded documents, add_documents
UpdateAddLoaded(k) ==
    /\ UpdateTurn(k)
    /\ upd[k].pc = "info"
    /\ LET p == plan.modified[k]
           cfg == GetSourceConfigForFile(p, ScanEnterpriseFiles)
           chunks == LoadedChunks(p, upd[k].docs, cfg.category, k)
       IN  /\ upd' = [upd EXCEPT ![k].pc = "done"]
           /\ AfterUpdateStep(upd', index \o chunks)
           /\ muts' = muts + (IF chunks # <<>> THEN 1 ELSE 0)
    /\ UNCHANGED <<enterprise, variant, strictStore, fs, vectorStore, allDocuments,
                   bm25, plan, dels, index0, failed, rebuilt, raised, passes,
                   faults, changes, quiet, dirty>>
    /\ UNCHANGED nonSyncVars

\* lines 763-769: the new files with their source configuration, grouped by
\* category in the order the categories first appear
GroupByCategory(items) ==
    LET firsts == SelectSeq([k \in DOMAIN items |-> k], LAMBDA k :
                      \A j \in 1..(k - 1) : items[j].cat # items[k].cat)
        groups == [c \in DOMAIN firsts |->
                      SelectSeq(items, LAMBDA it : it.cat = items[firsts[c]].cat)]
    IN  Flatten(groups, Len(groups))

\* lines 749-830 (legacy 476-575; async 1014-1125): load every new file, split
\* all loaded documents, add the chunks (creating the store if there is none).
\* f: the occurrence whose load or file information fails (0: none).  Only the
\* loads are inside a try: an exception of the store propagates to the caller.
ProcessNew ==
    /\ spc = "new"
    /\ \E f \in 0..Len(plan.new), kind \in {"load_fails", "info_fails"} :
        LET scan == ScanEnterpriseFiles
            items == [k \in DOMAIN plan.new |->
                         [path |-> plan.new[k], k |-> k,
                          cat |-> GetSourceConfigForFile(plan.new[k], scan).category]]
            loaded == SelectSeq(GroupByCategory(items), LAMBDA it :
                          ~(it.k = f /\ kind = "load_fails"))
            perFile == [j \in DOMAIN loaded |->
                           NewChunks(loaded[j].path, loaded[j].k # f, loaded[j].cat)]
            chunks == Flatten(perFile, Len(perFile))
            rejected == loaded # <<>> /\ chunks = <<>> /\ strictStore
        IN  /\ f > 0 => faults < MaxFaults
            /\ f = 0 => kind = "load_fails"
            /\ failed' = IF f > 0 THEN failed \cup {plan.new[f]} ELSE failed
            /\ faults' = faults + (IF f > 0 THEN 1 ELSE 0)
            /\ quiet' = IF f > 0 THEN 0 ELSE quiet
            /\ raised' = rejected
            /\ spc' = IF rejected THEN "idle" ELSE "rebuild"
            /\ vectorStore' = IF loaded # <<>> /\ ~rejected THEN TRUE ELSE vectorStore
            /\ index' = index \o chunks
            /\ muts' = muts + (IF chunks # <<>> THEN 1 ELSE 0)
    /\ UNCHANGED <<enterprise, variant, strictStore, fs, allDocuments, bm25, plan,
                   dels, upd, index0, rebuilt, passes, changes, dirty>>
    /\ UNCHANGED nonSyncVars

\* lines 657-662 with _load_all_documents (832-860) and _build_bm25_retriever
\* (862-887), which keeps the old retriever when there is no document
Rebuild ==
    /\ spc = "rebuild"
    /\ allDocuments' = IF vectorStore THEN Docs(index) ELSE allDocuments
    /\ bm25' = IF vectorStore /\ index # <<>> THEN Docs(index) ELSE bm25
    /\ rebuilt' = TRUE
    /\ spc' = "idle"
    /\ UNCHANGED <<enterprise, variant, strictStore, fs, index, vectorStore, plan,
                   dels, upd, index0, failed, muts, raised, passes, faults,
                   changes, quiet, dirty>>
    /\ UNCHANGED nonSyncVars

\* between two passes, a file is written (created or changed) ...
WriteFile(p, c) ==
    /\ spc = "idle"
    /\ changes < MaxChanges
    /\ fs[p] # [exists |-> TRUE, content |-> c]
    /\ fs' = [fs EXCEPT ![p] = [exists |-> TRUE, content |-> c]]
    /\ changes' = changes + 1
    /\ quiet' = 0
    /\ dirty' = TRUE
    /\ UNCHANGED <<enterprise, variant, strictStore, index, vectorStore,
                   allDocuments, bm25, spc, plan, dels, upd, index0, failed, muts,
                   rebuilt, raised, passes, faults>>
    /\ UNCHANGED nonSyncVars

\* ... or removed
RemoveFile(p) ==
    /\ spc = "idle"
    /\ changes < MaxChanges
    /\ fs[p].exists
    /\ fs' = [fs EXCEPT ![p] = NoFile]
    /\ changes' = changes + 1
    /\ quiet' = 0
    /\ dirty' = TRUE
    /\ UNCHANGED <<enterprise, variant, strictStore, index, vectorStore,
                   allDocuments, bm25, spc, plan, dels, upd, index0, failed, muts,
                   rebuilt, raised, passes, faults>>
    /\ UNCHANGED nonSyncVars

\* the synchroniser before its first pass: no store, nothing indexed
SyncIdle ==
    /\ index = <<>>
    /\ vectorStore = FALSE
    /\ allDocuments = <<>>
    /\ bm25 = <<>>
    /\ spc = "idle"
    /\ plan = [new |-> <<>>, modified |-> <<>>, deleted |-> <<>>]
    /\ dels = <<>>
    /\ upd = <<>>
    /\ index0 = <<>>
    /\ failed = {}
    /\ muts = 0
    /\ rebuilt = FALSE
    /\ raised = FALSE
    /\ passes = 0
    /\ faults = 0
    /\ changes = 0
    /\ quiet = 0
    /\ dirty = TRUE

\* no question is being answered
StreamIdle ==
    /\ mode = "none"
    /\ questions = <<>>
    /\ useMemory = FALSE
    /\ hasAstream = FALSE
    /\ rewriting = FALSE
    /\ qaChain = FALSE
    /\ clock = 0
    /\ memory = <<>>
    /\ ask = <<>>
    /\ bpc = "none"
    /\ bout = <<>>

----------------------------------------------------------------------------
(* Retrieval: query rewriting, multi-query retrieval, the reranking gate *)

\* characters of the rewrite response
MaxResponse == 4
\* retrieval results per query variant
MaxHits == 2
\* candidates handed to the reranking gate
MaxCandidates == 4

\* config.QUERY_REWRITE_COUNT
QUERY_REWRITE_COUNT == 3
\* config.ENABLE_DOCUMENT_DEDUPLICATION
ENABLE_DOCUMENT_DEDUPLICATION == TRUE

\* the characters of a rewrite response: a digit, the dot and the dash of a
\* numbering, white space, the line break and a letter
RewriteChars == {"1", ".", "-", " ", "\n", "a"}

Queries == {<<"a">>, <<"b">>}

Whitespace == {" ", "\n"}

\* str.strip() of a response or of a line
RECURSIVE StripWs(_)
StripWs(s) ==
    IF s = <<>> THEN <<>>
    ELSE IF Head(s) \in Whitespace THEN StripWs(Tail(s))
    ELSE IF s[Len(s)] \in Whitespace THEN StripWs(SubSeq(s, 1, Len(s) - 1))
    ELSE s

\* str.lstrip(chars)
RECURSIVE LStrip(_, _)
LStrip(s, chars) ==
    IF s # <<>> /\ Head(s) \in chars THEN LStrip(Tail(s), chars) ELSE s

\* the positions of character c in s
Positions(s, c) == {k \in DOMAIN s : s[k] = c}

First(S) == CHOOSE k \in S : \A j \in S : k <= j

\* content.split('\n')
RECURSIVE SplitLines(_)
SplitLines(s) ==
    IF Positions(s, "\n") = {} THEN <<s>>
    ELSE LET k == First(Positions(s, "\n"))
         IN  <<SubSeq(s, 1, k - 1)>> \o SplitLines(SubSeq(s, k + 1, Len(s)))

\* line.split('.', 1)[-1]
AfterFirstDot(line) ==
    IF Positions(line, ".") = {} THEN line
    ELSE SubSeq(line, First(Positions(line, ".")) + 1, Len(line))

IsDigit(c) == c \in {"1"}

\* pipeline.py lines 1256-1260: the numbering of a line is removed
CleanLine(line) ==
    IF line # <<>> /\ (IsDigit(line[1]) \/ line[1] = "-")
    THEN StripWs(LStrip(StripWs(AfterFirstDot(line)), {"-", " "}))
    ELSE line

\* lines 1253-1263: the rewritten queries read from the stripped lines
RECURSIVE CollectRewrites(_, _)
CollectRewrites(lines, rewritten) ==
    IF lines = <<>> THEN rewritten
    ELSE LET line == StripWs(Head(lines))
             cleaned == CleanLine(line)
         IN  CollectRewrites(Tail(lines),
                 IF line # <<>> /\ cleaned # <<>> /\ cleaned \notin Range(rewritten)
                 THEN Append(rewritten, cleaned)
                 ELSE rewritten)

Take(s, n) == SubSeq(s, 1, Min(n, Len(s)))

\* _rewrite_query returning the rewritten queries only
RewrittenOnly(query, resp) ==
    IF ~rewriteOn \/ ~resp.ok THEN <<query>>
    ELSE Take(CollectRewrites(SplitLines(StripWs(resp.content)), <<>>),
              QUERY_REWRITE_COUNT)

\* _rewrite_query (pipeline.py 1220-1277) and _rewrite_query_async
\* (async_pipeline.py 646-707): the list of queries, given what the
\* generation call did
RewriteQuery(query, resp) ==
    IF ~rewriteOn THEN <<query>>
    ELSE IF ~resp.ok THEN <<query>>
    ELSE <<query>> \o
         Take(CollectRewrites(SplitLines(StripWs(resp.content)), <<>>),
              QUERY_REWRITE_COUNT)

\* what the generation call can do: raise, or return a text
Responses ==
    {[ok |-> FALSE, content |-> <<>>]} \cup
    {[ok |-> TRUE, content |-> c] : c \in SeqsUpTo(RewriteChars, MaxResponse)}

NoResponse == [ok |-> TRUE, content |-> <<>>]

\* a chunk as retrieval sees it: page_content and metadata['category']
Doc(text, category) == [text |-> text, category |-> category]

\* the chunks a pipeline may have loaded: two of them with the same content,
\* one without a category
AllDocs == <<Doc("x", "technical"), Doc("y", NoCategory), Doc("x", "product")>>

Corpora == {SelectSeq(AllDocs, LAMBDA d : d \in S) : S \in SUBSET Range(AllDocs)}

\* the category lists a caller may pass; <<>> is "all categories"
CategoryLists == {<<>>, <<"technical">>, <<"general">>}

\* lines 1117-1118: doc.metadata.get('category', 'general')
CategoryOf(doc) == IF doc.category = NoCategory THEN "general" ELSE doc.category

\* lines 1114-1119: category_documents
CategoryDocuments(cats) ==
    SelectSeq(corpus, LAMBDA d : CategoryOf(d) \in Range(cats))

\* _build_category_retriever (pipeline.py 1101-1168), as the documents the
\* retriever it returns searches; _build_hybrid_retriever searches them all.
\* built: the temporary vector store could be constructed
BuildCategoryRetriever(cats, built) ==
    IF cats = <<>> THEN corpus
    ELSE IF CategoryDocuments(cats) = <<>> THEN corpus
    ELSE IF built THEN CategoryDocuments(cats)
    ELSE corpus

\* what retriever.invoke(query) can return: up to MaxHits different
\* documents of the ones it searches, in rank order
HitLists(scope) ==
    {h \in SeqsUpTo(Range(scope), MaxHits) :
        \A i, j \in DOMAIN h : i # j => h[i] # h[j]}

\* hash(doc.page_content); different contents have different hashes here
ContentHash(text) == <<"hash", text>>

Seen(all) == {ContentHash(all[k].text) : k \in DOMAIN all}

\* the merge loop without the test on seen_contents
AppendAll(all, docs) == all \o docs

\* lines 1315-1322: the documents of one variant are appended to
\* all_documents, except those whose content hash was seen
RECURSIVE DedupAppend(_, _)
DedupAppend(all, docs) ==
    IF docs = <<>> THEN all
    ELSE DedupAppend(
             IF ENABLE_DOCUMENT_DEDUPLICATION /\ ContentHash(Head(docs).text) \in Seen(all)
             THEN all
             ELSE Append(all, Head(docs)),
             Tail(docs))

\* async_pipeline.py lines 760-770: the lists gather returned, merged in
\* the order of the tasks
RECURSIVE MergeGathered(_, _)
MergeGathered(lists, n) ==
    IF n = 0 THEN <<>>
    ELSE DedupAppend(MergeGathered(lists, n - 1), lists[n].docs)

\* a variant's retrieval: its state, the list it returned, and how many
\* retrievals had finished before it
Pending == [state |-> "pending", docs |-> <<>>, at |-> 0]

Finished == Cardinality({k \in DOMAIN hits : hits[k] # Pending})

\* the variant whose retrieval may finish next: any pending one under
\* gather, the first pending one in the sequential loop
MayFinish(k) ==
    /\ rcall = "retrieve"
    /\ rpc = "retrieve"
    /\ k \in DOMAIN hits
    /\ hits[k] = Pending
    /\ concurrent \/ \A j \in 1..(k - 1) : hits[j] # Pending

\* pipeline.py 1063-1091 / 1296-1326 (one turn of the loop) and
\* async_pipeline.py 725-754 / 793-822 (one task): the retriever is built
\* and returns its documents
VariantReturns(k) ==
    /\ MayFinish(k)
    /\ \E built \in BOOLEAN :
         \E docs \in HitLists(BuildCategoryRetriever(categories, built)) :
            /\ hits' = [hits EXCEPT ![k] = [state |-> "done", docs |-> docs, at |-> Finished]]
            /\ retrieved' = IF concurrent THEN retrieved
                            ELSE DedupAppend(retrieved, docs)
    /\ UNCHANGED <<rcall, rpc, rewriteOn, original, response, queries, concurrent,
                   categories, corpus, scorerOk, finalDocs, surfaced>>
    /\ UNCHANGED nonRetVars

\* the retrieval of the variant raises: the loop continues, the task
\* returns an empty list
VariantFails(k) ==
    /\ MayFinish(k)
    /\ hits' = [hits EXCEPT ![k] = [state |-> "failed", docs |-> <<>>, at |-> Finished]]
    /\ UNCHANGED <<rcall, rpc, rewriteOn, original, response, queries, concurrent,
                   categories, corpus, retrieved, scorerOk, finalDocs, surfaced>>
    /\ UNCHANGED nonRetVars

\* the loop is over, or gather has returned and its lists are merged
MergerReturns ==
    /\ rcall = "retrieve"
    /\ rpc = "retrieve"
    /\ \A k \in DOMAIN hits : hits[k] # Pending
    /\ retrieved' = IF concurrent THEN MergeGathered(hits, Len(hits)) ELSE retrieved
    /\ rpc' = "returned"
    /\ UNCHANGED <<rcall, rewriteOn, original, response, queries, concurrent,
                   categories, corpus, hits, scorerOk, finalDocs, surfaced>>
    /\ UNCHANGED nonRetVars

\* _rewrite_query with rewriting switched off: no generation call
RewriteDisabled ==
    /\ rcall = "rewrite"
    /\ rpc = "call"
    /\ ~rewriteOn
    /\ queries' = RewriteQuery(original, response)
    /\ rpc' = "returned"
    /\ UNCHANGED <<rcall, rewriteOn, original, response, concurrent, categories,
                   corpus, hits, retrieved, scorerOk, finalDocs, surfaced>>
    /\ UNCHANGED nonRetVars

\* the generation call returns a text, or raises
RewriteCalls ==
    /\ rcall = "rewrite"
    /\ rpc = "call"
    /\ rewriteOn
    /\ \E resp \in Responses :
         /\ response' = resp
         /\ queries' = RewriteQuery(original, resp)
    /\ rpc' = "returned"
    /\ UNCHANGED <<rcall, rewriteOn, original, concurrent, categories, corpus,
                   hits, retrieved, scorerOk, finalDocs, surfaced>>
    /\ UNCHANGED nonRetVars

\* the candidates of the gate: documents of different contents
GateDocs == {Doc("t1", NoCategory), Doc("t2", NoCategory),
             Doc("t3", NoCategory), Doc("t4", NoCategory)}

CandidateLists ==
    {c \in SeqsUpTo(GateDocs, MaxCandidates) :
        \A i, j \in DOMAIN c : i # j => c[i] # c[j]}

\* the orders a scorer can put n candidates in
Orders(n) == {p \in [1..n -> 1..n] : \A i, j \in 1..n : i # j => p[i] # p[j]}

\* CrossEncoderReranker(top_n = RERANKER_TOP_N).compress_documents
Compress(docs, p) == Take([k \in DOMAIN docs |-> docs[p[k]]], RERANKER_TOP_N)

\* streaming_pipeline.py 96-104 / 210-218 (rewriting on) and the
\* ContextualCompressionRetriever of 106-119 / 222-262 (rewriting off): the
\* scorer returns
GateReranks ==
    /\ rcall = "gate"
    /\ rpc = "gate"
    /\ retrieved # <<>>
    /\ \E p \in Orders(Len(retrieved)) :
         finalDocs' = Take(Compress(retrieved, p), RERANKER_TOP_N)
    /\ rpc' = "returned"
    /\ UNCHANGED <<rcall, rewriteOn, original, response, queries, concurrent,
                   categories, corpus, hits, retrieved, scorerOk, surfaced>>
    /\ UNCHANGED nonRetVars

\* the scorer raises: with rewriting on, lines 102-103 / 216-217 catch it;
\* with rewriting off nothing does before ask_stream's own handler
\* (lines 168-173 / 296-302), which yields an ERROR event
GateScorerFails ==
    /\ rcall = "gate"
    /\ rpc = "gate"
    /\ retrieved # <<>>
    /\ scorerOk' = FALSE
    /\ finalDocs' = IF rewriteOn THEN Take(retrieved, RERANKER_TOP_N) ELSE <<>>
    /\ surfaced' = ~rewriteOn
    /\ rpc' = "returned"
    /\ UNCHANGED <<rcall, rewriteOn, original, response, queries, concurrent,
                   categories, corpus, hits, retrieved>>
    /\ UNCHANGED nonRetVars

\* no candidate: the scorer is not called (line 96; the compression
\* retriever returns the empty list as it is)
GateSkips ==
    /\ rcall = "gate"
    /\ rpc = "gate"
    /\ retrieved = <<>>
    /\ finalDocs' = Take(retrieved, RERANKER_TOP_N)
    /\ rpc' = "returned"
    /\ UNCHANGED <<rcall, rewriteOn, original, response, queries, concurrent,
                   categories, corpus, hits, retrieved, scorerOk, surfaced>>
    /\ UNCHANGED nonRetVars

\* no retrieval function is being called
RetrievalIdle ==
    /\ rcall = "none"
    /\ rpc = "none"
    /\ rewriteOn = FALSE
    /\ original = <<>>
    /\ response = NoResponse
    /\ queries = <<>>
    /\ concurrent = FALSE
    /\ categories = <<>>
    /\ corpus = <<>>
    /\ hits = <<>>
    /\ retrieved = <<>>
    /\ scorerOk = TRUE
    /\ finalDocs = <<>>
    /\ surfaced = FALSE

----------------------------------------------------------------------------
(* Calls of the memory manager *)

\* turns the buffer holds before add_conversation is refused in this model
MaxTurns == 4

\* the lengths of the answers added: none, short ones, and one longer than
\* the whole budget
AnswerLengths == {0, 3, 5, SHORT_TERM_MEMORY_MAX_LENGTH + 1}

Answers == {[k \in 1..n |-> "x"] : n \in AnswerLengths}

NoTurn == [question |-> "", answer |-> <<>>, source |-> "none", ndocs |-> 0]

\* no add_conversation has been followed
MemoryIdle ==
    /\ prior = <<>>
    /\ added = NoTurn

\* memory_manager.add_conversation(question, answer, metadata) on any turn
AddTurn ==
    /\ Len(memory) < MaxTurns
    /\ \E q \in Questions, a \in Answers :
         /\ added' = [question |-> q, answer |-> a,
                      source |-> "knowledge_base", ndocs |-> 1]
         /\ memory' = AddConversation(memory, q, a, "knowledge_base", 1)
    /\ prior' = memory
    /\ UNCHANGED <<mode, questions, useMemory, hasAstream, rewriting, qaChain,
                   clock, ask, bpc, bout>>
    /\ UNCHANGED <<syncVars, retVars, bootVars, fanVars, twoVars, promptVars, loopVars>>

\* memory_manager.clear_memory()
ClearMemory ==
    /\ memory # <<>>
    /\ memory' = <<>>
    /\ prior' = <<>>
    /\ added' = NoTurn
    /\ UNCHANGED <<mode, questions, useMemory, hasAstream, rewriting, qaChain,
                   clock, ask, bpc, bout>>
    /\ UNCHANGED <<syncVars, retVars, bootVars, fanVars, twoVars, promptVars, loopVars>>

----------------------------------------------------------------------------
(* Start of the API service *)

\* requests the service gets in one run
MaxRequests == 2

\* the routes of api_server.py
Endpoints == {"health", "sync", "stats", "categories", "ask", "batch"}

\* pc: where startup_event stands; apiKey, baseUrl, modelName: the
\* environment variables are set; modelsOk: the embedding and reranker models
\* load; hasStore: a stored collection exists; syncOk: the first sync
\* returns; llm, storeLoaded, qaChainBuilt: what the constructor has done;
\* raised: the constructor raised; pipeline: the global is not None;
\* served, refused: requests handled and requests answered 503
BootIdle ==
    boot = [pc |-> "none", apiKey |-> TRUE, baseUrl |-> TRUE, modelName |-> TRUE,
            modelsOk |-> TRUE, hasStore |-> FALSE, syncOk |-> TRUE,
            llm |-> FALSE, storeLoaded |-> FALSE, qaChainBuilt |-> FALSE,
            raised |-> FALSE, pipeline |-> FALSE, served |-> 0, refused |-> 0]

\* pipeline.py lines 75-90: _setup_models loads the embedding model, the
\* reranker and the splitter
SetupModels ==
    /\ boot.pc = "models"
    /\ boot' = IF boot.modelsOk THEN [boot EXCEPT !.pc = "llm"]
               ELSE [boot EXCEPT !.pc = "failed", !.raised = TRUE]
    /\ UNCHANGED <<streamVars, syncVars, retVars, memVars, fanVars, twoVars, promptVars, loopVars>>

\* _setup_llm raising only when the API key is missing
SetupLlmKeyOnly ==
    /\ boot.pc = "llm"
    /\ boot' = IF boot.apiKey
               THEN [boot EXCEPT !.pc = "store", !.llm = TRUE]
               ELSE [boot EXCEPT !.pc = "failed", !.raised = TRUE]
    /\ UNCHANGED <<streamVars, syncVars, retVars, memVars, fanVars, twoVars, promptVars, loopVars>>

\* lines 95-116: _setup_llm raises ValueError unless the key, the base URL
\* and the model name are all set
SetupLlm ==
    /\ boot.pc = "llm"
    /\ boot' = IF boot.apiKey /\ boot.baseUrl /\ boot.modelName
               THEN [boot EXCEPT !.pc = "store", !.llm = TRUE]
               ELSE [boot EXCEPT !.pc = "failed", !.raised = TRUE]
    /\ UNCHANGED <<streamVars, syncVars, retVars, memVars, fanVars, twoVars, promptVars, loopVars>>

\* line 61: _load_vector_store
LoadVectorStore ==
    /\ boot.pc = "store"
    /\ boot' = [boot EXCEPT !.pc = "chain", !.storeLoaded = TRUE]
    /\ UNCHANGED <<streamVars, syncVars, retVars, memVars, fanVars, twoVars, promptVars, loopVars>>

\* lines 65-73: the QA chain is built when a stored collection was loaded
BuildQaChain ==
    /\ boot.pc = "chain"
    /\ boot' = [boot EXCEPT !.pc = "constructed", !.qaChainBuilt = boot.hasStore]
    /\ UNCHANGED <<streamVars, syncVars, retVars, memVars, fanVars, twoVars, promptVars, loopVars>>

\* api_server.py lines 42-47: the pipeline is assigned and the first sync
\* runs; lines 48-51: when the sync raises the global is set to None
FirstSync ==
    /\ boot.pc = "constructed"
    /\ boot' = IF boot.syncOk
               THEN [boot EXCEPT !.pc = "listening", !.pipeline = TRUE]
               ELSE [boot EXCEPT !.pc = "listening", !.pipeline = FALSE]
    /\ UNCHANGED <<streamVars, syncVars, retVars, memVars, fanVars, twoVars, promptVars, loopVars>>

\* lines 48-51: the constructor raised; the error is logged, the global is
\* None and the application goes on starting
StartupCatches ==
    /\ boot.pc = "failed"
    /\ boot' = [boot EXCEPT !.pc = "listening", !.pipeline = FALSE]
    /\ UNCHANGED <<streamVars, syncVars, retVars, memVars, fanVars, twoVars, promptVars, loopVars>>

\* lines 63-160: every route answers 503 when the global is None and
\* handles the request otherwise
Request(endpoint) ==
    /\ boot.pc = "listening"
    /\ boot.served + boot.refused < MaxRequests
    /\ boot' = IF boot.pipeline THEN [boot EXCEPT !.served = @ + 1]
               ELSE [boot EXCEPT !.refused = @ + 1]
    /\ UNCHANGED <<streamVars, syncVars, retVars, memVars, fanVars, twoVars, promptVars, loopVars>>

----------------------------------------------------------------------------
(* The fan-out of a multi-query retrieval over the shared retrievers *)

\* config.RETRIEVER_TOP_K
RETRIEVER_TOP_K == 10
\* config.KEYWORD_RETRIEVER_TOP_K
KEYWORD_RETRIEVER_TOP_K == 5
\* config.REWRITE_QUERY_TOP_K
REWRITE_QUERY_TOP_K == 5

\* pipeline.py lines 1301-1304, async_pipeline.py 733-736: k of the query
\* at position index (0: the original)
KForQuery(i) == IF i = 0 THEN RETRIEVER_TOP_K ELSE REWRITE_QUERY_TOP_K

\* a retrieval of one query: pc; the k of its own vector retriever; the k
\* the vector and the lexical retriever searched with (0: not yet)
FanTask == [pc |-> "build", vectorK |-> 0, usedVector |-> 0, usedLexical |-> 0]

FanIdle == fan = [concurrent |-> FALSE, bm25K |-> KEYWORD_RETRIEVER_TOP_K, tasks |-> <<>>]

\* the retrieval of query i may take a step: always under gather and the
\* worker pool, after the earlier ones in the sequential loop
FanMayStep(i) ==
    /\ i \in DOMAIN fan.tasks
    /\ fan.concurrent \/ \A j \in 1..(i - 1) : fan.tasks[j].pc = "done"

\* pipeline.py lines 913-935: _build_hybrid_retriever makes a vector
\* retriever of its own and puts it beside self.bm25_retriever
BuildHybridRetriever(i) ==
    /\ FanMayStep(i)
    /\ fan.tasks[i].pc = "build"
    /\ fan' = [fan EXCEPT !.tasks[i].pc = "adjust",
                          !.tasks[i].vectorK = RETRIEVER_TOP_K]
    /\ UNCHANGED <<streamVars, syncVars, retVars, memVars, bootVars, twoVars, promptVars, loopVars>>

\* lines 1306-1313 / 738-745: k is written into the search_kwargs of the
\* task's vector retriever and into the k of the shared BM25 retriever
AdjustK(i) ==
    /\ FanMayStep(i)
    /\ fan.tasks[i].pc = "adjust"
    /\ fan' = [fan EXCEPT !.tasks[i].pc = "invoke",
                          !.tasks[i].vectorK = KForQuery(i - 1),
                          !.bm25K = KForQuery(i - 1)]
    /\ UNCHANGED <<streamVars, syncVars, retVars, memVars, bootVars, twoVars, promptVars, loopVars>>

\* line 1315 / 747: hybrid_retriever.invoke(query) searches with the k each
\* retriever has at that moment
InvokeRetrievers(i) ==
    /\ FanMayStep(i)
    /\ fan.tasks[i].pc = "invoke"
    /\ fan' = [fan EXCEPT !.tasks[i].pc = "done",
                          !.tasks[i].usedVector = fan.tasks[i].vectorK,
                          !.tasks[i].usedLexical = fan.bm25K]
    /\ UNCHANGED <<streamVars, syncVars, retVars, memVars, bootVars, twoVars, promptVars, loopVars>>

----------------------------------------------------------------------------
(* Two sync passes started by two requests of /sync *)

\* a pass has its pc and the files it classified as new, modified and
\* deleted; before the requests there is none
TwoIdle == passTask = <<>>

\* the sync variables a pass of this model does not use
PassFrame ==
    UNCHANGED <<enterprise, variant, strictStore, fs, allDocuments, bm25, spc,
                plan, dels, upd, index0, failed, muts, rebuilt, raised, passes,
                faults, changes, quiet, dirty>>

\* api_server.py line 78: create_task starts the pass at once; sequential:
\* the second request arrives after the first pass has ended
PassMayStep(t) ==
    /\ t \in DOMAIN passTask
    /\ passTask[t].overlap \/ \A j \in 1..(t - 1) : passTask[j].pc = "done"

\* async_pipeline.py lines 848-896: scan, read the processed sources,
\* classify every listed file, collect the missing ones
PassClassify(t) ==
    /\ PassMayStep(t)
    /\ passTask[t].pc = "classify"
    /\ LET cur == AllCurrentFiles(ScanEnterpriseFiles)
           processed == GetProcessedSources
       IN  passTask' = [passTask EXCEPT
               ![t].pc = "delete",
               ![t].new = SelectSeq(cur, LAMBDA p : p \notin processed),
               ![t].modified = SelectSeq(cur, LAMBDA p :
                                   /\ p \in processed
                                   /\ ENABLE_FILE_MONITORING
                                   /\ IsFileModified(p, TRUE)),
               ![t].deleted = IF AUTO_DELETE_MISSING_FILES
                              THEN SelectSeq(Paths, LAMBDA p :
                                       p \in processed /\ p \notin Range(cur))
                              ELSE <<>>]
    /\ UNCHANGED <<index, vectorStore>>
    /\ PassFrame
    /\ UNCHANGED <<streamVars, retVars, memVars, bootVars, fanVars, promptVars, loopVars>>

RECURSIVE DeleteAll(_, _)
DeleteAll(idx, ps) ==
    IF ps = <<>> THEN idx
    ELSE DeleteAll(DeleteDocumentsBySource(idx, Head(ps)), Tail(ps))

\* lines 906-916: the entries of the missing files are deleted
PassDelete(t) ==
    /\ PassMayStep(t)
    /\ passTask[t].pc = "delete"
    /\ index' = DeleteAll(index, passTask[t].deleted)
    /\ passTask' = [passTask EXCEPT ![t].pc = "update_delete"]
    /\ UNCHANGED vectorStore
    /\ PassFrame
    /\ UNCHANGED <<streamVars, retVars, memVars, bootVars, fanVars, promptVars, loopVars>>

\* lines 918-922, 958-963: the update of a modified file deletes its entries
PassUpdateDelete(t) ==
    /\ PassMayStep(t)
    /\ passTask[t].pc = "update_delete"
    /\ index' = DeleteAll(index, passTask[t].modified)
    /\ passTask' = [passTask EXCEPT ![t].pc = "update_add"]
    /\ UNCHANGED vectorStore
    /\ PassFrame
    /\ UNCHANGED <<streamVars, retVars, memVars, bootVars, fanVars, promptVars, loopVars>>

\* lines 965-1008: ... then loads the file, splits it and adds the chunks
PassUpdateAdd(t) ==
    /\ PassMayStep(t)
    /\ passTask[t].pc = "update_add"
    /\ LET scan == ScanEnterpriseFiles
           ps == passTask[t].modified
           chunks == [k \in DOMAIN ps |->
                         UpdateChunks(ps[k], TRUE,
                                      GetSourceConfigForFile(ps[k], scan).category, 0)]
       IN  index' = index \o Flatten(chunks, Len(chunks))
    /\ passTask' = [passTask EXCEPT ![t].pc = "new"]
    /\ UNCHANGED vectorStore
    /\ PassFrame
    /\ UNCHANGED <<streamVars, retVars, memVars, bootVars, fanVars, promptVars, loopVars>>

\* lines 924-927, 1014-1125: the new files are loaded, split and added
PassAddNew(t) ==
    /\ PassMayStep(t)
    /\ passTask[t].pc = "new"
    /\ LET scan == ScanEnterpriseFiles
           ps == passTask[t].new
           chunks == [k \in DOMAIN ps |->
                         NewChunks(ps[k], TRUE,
                                   GetSourceConfigForFile(ps[k], scan).category)]
       IN  index' = index \o Flatten(chunks, Len(chunks))
    /\ vectorStore' = IF passTask[t].new # <<>> THEN TRUE ELSE vectorStore
    /\ passTask' = [passTask EXCEPT ![t].pc = "done"]
    /\ PassFrame
    /\ UNCHANGED <<streamVars, retVars, memVars, bootVars, fanVars, promptVars, loopVars>>

----------------------------------------------------------------------------
(* The PromptManager *)

MaxPromptLen == 2

\* prompt_manager.py lines 146-163: the prompts the pipelines use
PromptNames == {"qa_prompt", "query_rewrite_prompt"}

\* the texts a prompt file or a save_prompt call may hold
PromptTexts == SeqsUpTo({"x", " "}, MaxPromptLen)

\* PromptTemplate.from_template(content)
Template(content) == <<"template", content>>

NoPrompts == [n \in PromptNames |-> {}]

\* file: the content of prompts/<name>.txt ({}: no file); promptCache and
\* templateCache: the entry of the name ({}: none); saved: the content the
\* last save_prompt of the name was given; loads and templates: what
\* load_prompt and get_template returned for the name since then; raised:
\* the last call raised
PromptIdle ==
    pm = [file |-> NoPrompts, promptCache |-> NoPrompts, templateCache |-> NoPrompts,
          saved |-> NoPrompts, loads |-> NoPrompts, templates |-> NoPrompts,
          raised |-> FALSE]

TheOne(S) == CHOOSE x \in S : TRUE

\* lines 24-57: load_prompt(name)
LoadPrompt(m, n) ==
    IF m.promptCache[n] # {}
    THEN [m EXCEPT !.loads[n] = @ \cup m.promptCache[n], !.raised = FALSE]
    ELSE IF m.file[n] = {}
    THEN [m EXCEPT !.raised = TRUE]
    ELSE LET content == Strip(TheOne(m.file[n]))
         IN  [m EXCEPT !.promptCache[n] = {content},
                       !.loads[n] = @ \cup {content},
                       !.raised = FALSE]

\* lines 59-81: get_template(name)
GetTemplate(m, n) ==
    IF m.templateCache[n] # {}
    THEN [m EXCEPT !.templates[n] = @ \cup m.templateCache[n], !.raised = FALSE]
    ELSE LET l == LoadPrompt(m, n)
         IN  IF l.raised THEN l
             ELSE LET template == Template(TheOne(l.promptCache[n]))
                  IN  [l EXCEPT !.templateCache[n] = {template},
                                !.templates[n] = @ \cup {template}]

\* lines 83-98: reload_prompt(name)
ReloadPrompt(m, n) ==
    LoadPrompt([m EXCEPT !.promptCache[n] = {}, !.templateCache[n] = {}], n)

\* save_prompt leaving the template of the name in its cache
SavePromptKeepsTemplate(m, n, content) ==
    [m EXCEPT !.file[n] = {Strip(content)},
              !.promptCache[n] = {},
              !.saved[n] = {content},
              !.loads[n] = {},
              !.templates[n] = {},
              !.raised = FALSE]

\* lines 112-133: save_prompt(name, content)
SavePrompt(m, n, content) ==
    [m EXCEPT !.file[n] = {Strip(content)},
              !.promptCache[n] = {},
              !.templateCache[n] = {},
              !.saved[n] = {content},
              !.loads[n] = {},
              !.templates[n] = {},
              !.raised = FALSE]

\* lines 135-139: clear_cache()
ClearCache(m) ==
    [m EXCEPT !.promptCache = NoPrompts, !.templateCache = NoPrompts, !.raised = FALSE]

PromptFrame == UNCHANGED <<streamVars, syncVars, retVars, memVars, bootVars, fanVars, twoVars, loopVars>>

CallLoadPrompt(n) == pm' = LoadPrompt(pm, n) /\ PromptFrame
CallGetTemplate(n) == pm' = GetTemplate(pm, n) /\ PromptFrame
CallReloadPrompt(n) == pm' = ReloadPrompt(pm, n) /\ PromptFrame
CallSavePrompt(n, content) == pm' = SavePrompt(pm, n, content) /\ PromptFrame
CallClearCache == pm' = ClearCache(pm) /\ PromptFrame

----------------------------------------------------------------------------
(* Where the steps of the async pipeline run: on the event loop that
   dispatches the coroutines, or on the ThreadPoolExecutor *)

MaxCoroutines == 2
Coroutines == 1..MaxCoroutines

\* ThreadPoolExecutor(max_workers=4)
max_workers == 4

\* via "executor": awaited through _run_in_executor; via "inline": plain
\* statements of the coroutine; via "native": the await of an async call
Step(name, via) == [name |-> name, via |-> via]

\* _update_enterprise_document_async
UpdateSteps ==
    << Step("vector_store.get", "executor"),
       Step("vector_store.delete", "executor"),
       Step("loader.load", "executor"),
       Step("_get_file_info_sync", "executor"),
       Step("split_documents", "executor"),
       Step("chunk_id", "inline"),
       Step("add_documents", "executor") >>

\* _process_new_enterprise_files_async
NewSteps ==
    << Step("loader.load", "executor"),
       Step("_get_file_info_sync", "executor"),
       Step("split_documents", "executor"),
       Step("chunk_id", "inline"),
       Step("add_documents", "executor") >>

\* ask_stream with query rewriting, a reranker and a memory
AskSteps ==
    << Step("llm.invoke", "executor"),
       Step("hybrid_retriever.invoke", "executor"),
       Step("compress_documents", "executor"),
       Step("get_conversation_context", "inline"),
       Step("llm.astream", "native"),
       Step("add_conversation", "inline") >>

StepsOf(kind) ==
    CASE kind = "update" -> UpdateSteps
      [] kind = "new" -> NewSteps
      [] kind = "ask" -> AskSteps

\* a coroutine: pc is the step it is at; at is "ready" (waiting for the
\* loop to resume it), "queued" and "running" (its function is with the
\* executor), "inline" (it holds the loop), "awaiting" (suspended in an
\* async call); holder is the coroutine the loop is running (0: none)
LoopIdle == run = [task |-> <<>>, holder |-> 0]

CoroutineDone(t) == run.task[t].pc > Len(StepsOf(run.task[t].kind))
CurStep(t) == StepsOf(run.task[t].kind)[run.task[t].pc]
Busy == Cardinality({t \in DOMAIN run.task : run.task[t].at = "running"})

LoopFrame == UNCHANGED <<streamVars, syncVars, retVars, memVars, bootVars, fanVars, twoVars, promptVars>>

\* the loop resumes a ready coroutine at a step not given to the executor
AtStep(t, via) ==
    /\ ~CoroutineDone(t)
    /\ run.task[t].at = "ready"
    /\ run.holder = 0
    /\ CurStep(t).via = via

MoveTo(t, at, pc, holder) ==
    run' = [task |-> [run.task EXCEPT ![t] = [@ EXCEPT !.at = at, !.pc = pc]],
            holder |-> holder]

\* _run_in_executor: loop.run_in_executor(self.executor, func, *args)
Submit(t) ==
    /\ AtStep(t, "executor")
    /\ MoveTo(t, "queued", run.task[t].pc, 0)
    /\ LoopFrame

\* a free worker of the executor takes the function
PoolRun(t) ==
    /\ run.task[t].at = "queued"
    /\ Busy < max_workers
    /\ MoveTo(t, "running", run.task[t].pc, run.holder)
    /\ LoopFrame

PoolDone(t) ==
    /\ run.task[t].at = "running"
    /\ MoveTo(t, "ready", run.task[t].pc + 1, run.holder)
    /\ LoopFrame

\* the statements between two awaits run on the loop, which resumes no
\* other coroutine until they end
InlineBegin(t) ==
    /\ AtStep(t, "inline")
    /\ MoveTo(t, "inline", run.task[t].pc, t)
    /\ LoopFrame

InlineEnd(t) ==
    /\ run.task[t].at = "inline"
    /\ MoveTo(t, "ready", run.task[t].pc + 1, 0)
    /\ LoopFrame

\* async for chunk in self.llm.astream(...): the coroutine is suspended
NativeAwait(t) ==
    /\ AtStep(t, "native")
    /\ MoveTo(t, "awaiting", run.task[t].pc, 0)
    /\ LoopFrame

NativeDone(t) ==
    /\ run.task[t].at = "awaiting"
    /\ MoveTo(t, "ready", run.task[t].pc + 1, run.holder)
    /\ LoopFrame

----------------------------------------------------------------------------
(* The specifications *)

InitFor(modes) ==
    /\ mode \in modes
    /\ IF mode = "single"
       THEN /\ questions \in {<<q>> : q \in Questions}
            /\ useMemory \in BOOLEAN
            /\ bpc = "single"
       ELSE /\ questions \in SeqsUpTo(Questions, MaxBatch)
            /\ useMemory = TRUE
            /\ bpc = "start"
    /\ hasAstream \in BOOLEAN
    /\ rewriting \in BOOLEAN
    /\ qaChain \in BOOLEAN
    /\ clock = 0
    /\ memory = <<>>
    /\ ask = [i \in 1..Len(questions) |-> AskInit]
    /\ bout = <<>>
    /\ enterprise = TRUE
    /\ variant = "sync"
    /\ strictStore = FALSE
    /\ fs = [p \in PathSet |-> NoFile]
    /\ SyncIdle
    /\ RetrievalIdle
    /\ MemoryIdle
    /\ BootIdle
    /\ FanIdle
    /\ TwoIdle
    /\ PromptIdle
    /\ LoopIdle

Init == InitFor({"single"})

BatchInit == InitFor({"single", "batch"})

\* one step of question i's ask_stream
AskStep(i) ==
         \/ AskStart(i) /\ UNCHANGED nonStreamVars
         \/ RetrieveReturns(i) /\ UNCHANGED nonStreamVars
         \/ RetrieveRaises(i) /\ UNCHANGED nonStreamVars
         \/ KbFragment(i) /\ UNCHANGED nonStreamVars
         \/ KbEnd(i) /\ UNCHANGED nonStreamVars
         \/ KbInvoke(i) /\ UNCHANGED nonStreamVars
         \/ KbFail(i) /\ UNCHANGED nonStreamVars
         \/ FbFragment(i) /\ UNCHANGED nonStreamVars
         \/ FbEnd(i) /\ UNCHANGED nonStreamVars
         \/ FbInvoke(i) /\ UNCHANGED nonStreamVars
         \/ FbFail(i) /\ UNCHANGED nonStreamVars
         \/ Complete(i) /\ UNCHANGED nonStreamVars

\* one ask_stream call, consumed by its caller
AskNext == AskStep(1)

Spec == Init /\ [][AskNext]_vars

\* one ask_stream call or one batch_ask_stream call, with time passing
BatchNext ==
    \/ \E i \in 1..MaxBatch : AskStep(i)
    \/ Tick /\ UNCHANGED nonStreamVars
    \/ BatchStart /\ UNCHANGED nonStreamVars
    \/ BatchMerge /\ UNCHANGED nonStreamVars

BatchSpec == BatchInit /\ [][BatchNext]_vars

\* at most this many tasks in one step of a pass
MaxTasks == Len(Paths) * Len(ENTERPRISE_DATA_SOURCES)

\* a pipeline constructed without a stored collection, over any directory
\* content, and the passes of sync_data_directory with the directory changing
\* between them
SyncInit ==
    /\ enterprise \in BOOLEAN
    /\ variant \in {"sync", "async"}
    /\ strictStore \in BOOLEAN
    /\ fs \in [PathSet -> Files]
    /\ SyncIdle
    /\ StreamIdle
    /\ RetrievalIdle
    /\ MemoryIdle
    /\ BootIdle
    /\ FanIdle
    /\ TwoIdle
    /\ PromptIdle
    /\ LoopIdle

SyncNext ==
    \/ Classify
    \/ \E k \in 1..MaxTasks : DeleteTask(k)
    \/ \E k \in 1..MaxTasks : UpdateGet(k)
    \/ \E k \in 1..MaxTasks : UpdateDelete(k)
    \/ \E k \in 1..MaxTasks : UpdateInsert(k)
    \/ ProcessNew
    \/ Rebuild
    \/ \E p \in PathSet, c \in FileContents : WriteFile(p, c)
    \/ \E p \in PathSet : RemoveFile(p)

SyncSpec == SyncInit /\ [][SyncNext]_vars

\* the passes of SyncSpec with the update tasks of the async variant taken
\* read by read, and with a process that writes a file between the reads
WrittenNext ==
    \/ SyncNext
    \/ \E k \in 1..MaxTasks : UpdateLoad(k)
    \/ \E p \in PathSet, c \in FileContents : WriteDuringUpdate(p, c)
    \/ \E k \in 1..MaxTasks : UpdateAddLoaded(k)

WrittenSpec == SyncInit /\ [][WrittenNext]_vars

\* a file whose two paragraphs have the same text
RepeatedContent == <<"a", "a">>

\* the passes of SyncSpec in legacy mode, where every file is listed once,
\* over files that may repeat a paragraph
RepeatInit ==
    /\ enterprise = FALSE
    /\ variant \in {"sync", "async"}
    /\ strictStore \in BOOLEAN
    /\ fs \in [PathSet -> {NoFile, [exists |-> TRUE, content |-> <<"a">>],
                                   [exists |-> TRUE, content |-> RepeatedContent]}]
    /\ SyncIdle
    /\ StreamIdle
    /\ RetrievalIdle
    /\ MemoryIdle
    /\ BootIdle
    /\ FanIdle
    /\ TwoIdle
    /\ PromptIdle
    /\ LoopIdle

RepeatSpec == RepeatInit /\ [][SyncNext]_vars

\* the passes of SyncSpec on a data directory that may be removed as a whole
RootNext == SyncNext \/ LegacyRootMissing

RootSpec == SyncInit /\ [][RootNext]_vars

\* the query lists handed to the merger: the original and up to two variants
QueryLists == {<<<<"a">>>>, <<<<"a">>, <<"b">>>>, <<<<"a">>, <<"b">>, <<"c">>>>}

\* one call of _rewrite_query, of the multi-query retrieval (with or without
\* categories, sequential or concurrent) or of the reranking gate, on any
\* input
RetrievalInit ==
    /\ rcall \in {"rewrite", "retrieve", "gate"}
    /\ response = NoResponse
    /\ scorerOk = TRUE
    /\ finalDocs = <<>>
    /\ surfaced = FALSE
    /\ IF rcall = "rewrite"
       THEN /\ rpc = "call"
            /\ rewriteOn \in BOOLEAN
            /\ original \in Queries
            /\ queries = <<>>
            /\ concurrent = FALSE
            /\ categories = <<>>
            /\ corpus = <<>>
            /\ hits = <<>>
            /\ retrieved = <<>>
       ELSE IF rcall = "retrieve"
       THEN /\ rpc = "retrieve"
            /\ rewriteOn = TRUE
            /\ queries \in QueryLists
            /\ original = queries[1]
            /\ concurrent \in BOOLEAN
            /\ categories \in CategoryLists
            /\ corpus \in Corpora
            /\ hits = [k \in DOMAIN queries |-> Pending]
            /\ retrieved = <<>>
       ELSE /\ rpc = "gate"
            /\ rewriteOn \in BOOLEAN
            /\ original \in Queries
            /\ queries = <<original>>
            /\ concurrent = TRUE
            /\ categories \in {<<>>, <<"technical">>}
            /\ corpus = <<>>
            /\ hits = <<>>
            /\ retrieved \in CandidateLists
    /\ StreamIdle
    /\ enterprise = TRUE
    /\ variant = "sync"
    /\ strictStore = FALSE
    /\ fs = [p \in PathSet |-> NoFile]
    /\ SyncIdle
    /\ MemoryIdle
    /\ BootIdle
    /\ FanIdle
    /\ TwoIdle
    /\ PromptIdle
    /\ LoopIdle

MaxQueries == 1 + QUERY_REWRITE_COUNT

RetrievalNext ==
    \/ RewriteDisabled
    \/ RewriteCalls
    \/ \E k \in 1..MaxQueries : VariantReturns(k)
    \/ \E k \in 1..MaxQueries : VariantFails(k)
    \/ MergerReturns
    \/ GateReranks
    \/ GateScorerFails
    \/ GateSkips

RetrievalSpec == RetrievalInit /\ [][RetrievalNext]_vars

\* the memory manager of a fresh process, and any sequence of its calls
MemoryInit ==
    /\ StreamIdle
    /\ enterprise = TRUE
    /\ variant = "sync"
    /\ strictStore = FALSE
    /\ fs = [p \in PathSet |-> NoFile]
    /\ SyncIdle
    /\ RetrievalIdle
    /\ MemoryIdle
    /\ BootIdle
    /\ FanIdle
    /\ TwoIdle
    /\ PromptIdle
    /\ LoopIdle

MemoryNext == AddTurn \/ ClearMemory

MemorySpec == MemoryInit /\ [][MemoryNext]_vars

\* the service started in any environment
BootInit ==
    /\ \E k, u, m, mo, st, sy \in BOOLEAN :
          boot = [pc |-> "models", apiKey |-> k, baseUrl |-> u, modelName |-> m,
                  modelsOk |-> mo, hasStore |-> st, syncOk |-> sy,
                  llm |-> FALSE, storeLoaded |-> FALSE, qaChainBuilt |-> FALSE,
                  raised |-> FALSE, pipeline |-> FALSE, served |-> 0, refused |-> 0]
    /\ StreamIdle
    /\ enterprise = TRUE
    /\ variant = "sync"
    /\ strictStore = FALSE
    /\ fs = [p \in PathSet |-> NoFile]
    /\ SyncIdle
    /\ RetrievalIdle
    /\ MemoryIdle
    /\ FanIdle
    /\ TwoIdle
    /\ PromptIdle
    /\ LoopIdle

BootNext ==
    \/ SetupModels
    \/ SetupLlm
    \/ LoadVectorStore
    \/ BuildQaChain
    \/ FirstSync
    \/ StartupCatches
    \/ \E endpoint \in Endpoints : Request(endpoint)

BootSpec == BootInit /\ [][BootNext]_vars

\* one multi-query retrieval of up to MaxQueries queries, by the sequential
\* loop or by gather on the worker pool, with hybrid search on
FanInit ==
    /\ \E c \in BOOLEAN, n \in 1..MaxQueries :
          fan = [concurrent |-> c, bm25K |-> KEYWORD_RETRIEVER_TOP_K,
                 tasks |-> [i \in 1..n |-> FanTask]]
    /\ StreamIdle
    /\ enterprise = TRUE
    /\ variant = "sync"
    /\ strictStore = FALSE
    /\ fs = [p \in PathSet |-> NoFile]
    /\ SyncIdle
    /\ RetrievalIdle
    /\ MemoryIdle
    /\ BootIdle
    /\ TwoIdle
    /\ PromptIdle
    /\ LoopIdle

FanNext ==
    \E i \in 1..MaxQueries :
        \/ BuildHybridRetriever(i)
        \/ AdjustK(i)
        \/ InvokeRetrievers(i)

FanSpec == FanInit /\ [][FanNext]_vars

MaxSyncRequests == 2

\* the collection a finished pass left of a file with content c
IndexedAs(p, c) ==
    [i \in 1..Len(Split(c)) |->
        Entry(p, Split(c)[i], Hash(c), "general", ChunkIdByContent(p, Split(c)[i]), 0)]

\* two requests of /sync, overlapping or one after the other, on a directory
\* with a.txt (present or not, indexed before or not, with the same or with
\* another content) and with t.txt removed (indexed before or not); every
\* file is listed by one source only
TwoInit ==
    /\ \E o \in BOOLEAN :
          passTask = [t \in 1..MaxSyncRequests |->
                         [pc |-> "classify", new |-> <<>>, modified |-> <<>>,
                          deleted |-> <<>>, overlap |-> o]]
    /\ enterprise = TRUE
    /\ variant = "async"
    /\ strictStore = FALSE
    /\ fs \in {f \in [PathSet -> Files] : ~f[PathT].exists}
    /\ \E ca \in FileContents \cup {<<>>}, ct \in {<<>>, <<"a">>} :
          index = IndexedAs(PathA, ca) \o IndexedAs(PathT, ct)
    /\ vectorStore = (index # <<>>)
    /\ allDocuments = <<>>
    /\ bm25 = <<>>
    /\ spc = "idle"
    /\ plan = [new |-> <<>>, modified |-> <<>>, deleted |-> <<>>]
    /\ dels = <<>>
    /\ upd = <<>>
    /\ index0 = <<>>
    /\ failed = {}
    /\ muts = 0
    /\ rebuilt = FALSE
    /\ raised = FALSE
    /\ passes = 0
    /\ faults = 0
    /\ changes = 0
    /\ quiet = 0
    /\ dirty = TRUE
    /\ StreamIdle
    /\ RetrievalIdle
    /\ MemoryIdle
    /\ BootIdle
    /\ FanIdle
    /\ PromptIdle
    /\ LoopIdle

TwoNext ==
    \E t \in 1..MaxSyncRequests :
        \/ PassClassify(t)
        \/ PassDelete(t)
        \/ PassUpdateDelete(t)
        \/ PassUpdateAdd(t)
        \/ PassAddNew(t)

TwoSpec == TwoInit /\ [][TwoNext]_vars

\* a PromptManager over a prompts directory that holds any files, and any
\* sequence of its calls
PromptInit ==
    /\ \E f \in [PromptNames -> {{}} \cup {{c} : c \in PromptTexts}] :
          pm = [file |-> f, promptCache |-> NoPrompts, templateCache |-> NoPrompts,
                saved |-> NoPrompts, loads |-> NoPrompts, templates |-> NoPrompts,
                raised |-> FALSE]
    /\ StreamIdle
    /\ enterprise = TRUE
    /\ variant = "sync"
    /\ strictStore = FALSE
    /\ fs = [p \in PathSet |-> NoFile]
    /\ SyncIdle
    /\ RetrievalIdle
    /\ MemoryIdle
    /\ BootIdle
    /\ FanIdle
    /\ TwoIdle
    /\ LoopIdle

PromptNext ==
    \/ \E n \in PromptNames : CallLoadPrompt(n)
    \/ \E n \in PromptNames : CallGetTemplate(n)
    \/ \E n \in PromptNames : CallReloadPrompt(n)
    \/ \E n \in PromptNames, c \in PromptTexts : CallSavePrompt(n, c)
    \/ CallClearCache

PromptSpec == PromptInit /\ [][PromptNext]_vars

\* the coroutines of sync passes and of questions on one event loop
LoopInit ==
    /\ \E kinds \in [Coroutines -> {"update", "new", "ask"}] :
          run = [task |-> [t \in Coroutines |-> [kind |-> kinds[t], pc |-> 1, at |-> "ready"]],
                 holder |-> 0]
    /\ StreamIdle
    /\ enterprise = TRUE
    /\ variant = "async"
    /\ strictStore = FALSE
    /\ fs = [p \in PathSet |-> NoFile]
    /\ SyncIdle
    /\ RetrievalIdle
    /\ MemoryIdle
    /\ BootIdle
    /\ FanIdle
    /\ TwoIdle
    /\ PromptIdle

LoopNext ==
    \/ \E t \in Coroutines : Submit(t)
    \/ \E t \in Coroutines : PoolRun(t)
    \/ \E t \in Coroutines : PoolDone(t)
    \/ \E t \in Coroutines : InlineBegin(t)
    \/ \E t \in Coroutines : InlineEnd(t)
    \/ \E t \in Coroutines : NativeAwait(t)
    \/ \E t \in Coroutines : NativeDone(t)

LoopSpec == LoopInit /\ [][LoopNext]_vars


----------------------------------------------------------------------------
(* Properties of the event streams *)

Last(seq) == seq[Len(seq)]

Front(seq) == SubSeq(seq, 1, Len(seq) - 1)

\* t is a prefix of  Processing* GenerationStart GenerationChunk* GenerationEnd Complete,
\* read from state st of its automaton
RECURSIVE Accepts(_, _)
Accepts(st, t) ==
    IF t = <<>> THEN TRUE
    ELSE CASE st = 0 /\ Head(t) = "processing" -> Accepts(0, Tail(t))
           [] st = 0 /\ Head(t) = "start"      -> Accepts(1, Tail(t))
           [] st = 1 /\ Head(t) = "chunk"      -> Accepts(1, Tail(t))
           [] st = 1 /\ Head(t) = "end"        -> Accepts(2, Tail(t))
           [] st = 2 /\ Head(t) = "complete"   -> Accepts(3, Tail(t))
           [] OTHER -> FALSE

\* a prefix of the state-machine order, or such a prefix ended by one Error
OrderOK(t) ==
    \/ Accepts(0, t)
    \/ t # <<>> /\ Last(t) = "error" /\ Accepts(0, Front(t))

EndsWell(evs) == evs # <<>> /\ Last(evs).type \in {"complete", "error"}

\* C1: the event types ask_stream has delivered are a prefix of
\* Processing*, GenerationStart, GenerationChunk*, GenerationEnd, Complete,
\* or such a prefix ended by Error, after which nothing is delivered.
C1_EventOrder == \A i \in 1..N : OrderOK(Types(ask[i].out))

\* C3: once a generation call has raised, in the grounded or in the fallback
\* attempt, no Complete is delivered, and the finished stream ends in Error.
C3_GenerationFailureIsError ==
    \A i \in 1..N :
        ask[i].failure \in {"generation", "fallback_generation"} =>
            /\ \A k \in 1..Len(ask[i].out) : ask[i].out[k].type # "complete"
            /\ ask[i].pc = "done" => Last(ask[i].out).type = "error"

\* retrieval and reranking returned zero candidates to question i
ZeroCandidates(i) == ask[i].fallback /\ ask[i].buf = <<>>

\* C8: a finished question whose retrieval gave zero candidates has delivered
\* chunks that assemble to a non-empty answer.
C8_FallbackAnswerNonEmpty ==
    \A i \in 1..N :
        ZeroCandidates(i) /\ ask[i].pc = "done" => Assemble(ask[i].out) # <<>>

\* the grounded attempt of question i is over and ask_stream has inspected it
Inspected(i) == ask[i].buf # <<>> /\ ask[i].pc # "kb"

\* the text equals the refusal sentinel (white space around it aside)
IsSentinel(text) == Strip(text) = RefusalPhrase

\* C9 as stated: the fallback is entered after a grounded attempt exactly when
\* the assembled grounded answer equals the refusal sentinel.
C9_FallbackIffEqualsSentinel ==
    \A i \in 1..N :
        Inspected(i) => (ask[i].fallback <=> IsSentinel(Assemble(ask[i].buf)))

\* C9 as amended: the fallback is entered after a grounded attempt exactly
\* when the assembled grounded answer contains the refusal phrase; otherwise
\* the collected grounded events are what the caller is given after Processing.
C9_FallbackIffContainsPhrase ==
    \A i \in 1..N :
        Inspected(i) =>
            /\ ask[i].fallback <=> Contains(Assemble(ask[i].buf), RefusalPhrase)
            /\ ~ask[i].fallback =>
                 /\ SubSeq(ask[i].out, 2, Len(ask[i].buf) + 1) = ask[i].buf
                 /\ Assemble(ask[i].out) = Assemble(ask[i].buf)

\* a grounded answer that contains the phrase without being the sentinel
\* sent the question to the fallback
C9_Witness ==
    \E i \in 1..N :
        /\ Inspected(i) /\ ask[i].fallback
        /\ ~IsSentinel(Assemble(ask[i].buf))
        /\ ask[i].pc = "done"

\* a second case of C9: a grounded answer without the phrase was delivered
C9_WitnessGrounded ==
    \E i \in 1..N :
        /\ Inspected(i) /\ ~ask[i].fallback /\ ask[i].pc = "done"
        /\ Assemble(ask[i].buf) # <<>>

----------------------------------------------------------------------------
(* Properties of batch_ask_stream *)

BatchDone == mode = "batch" /\ bpc = "done"

\* every generator and the batch have returned
Terminated ==
    /\ \A i \in 1..N : ask[i].pc = "done"
    /\ mode = "batch" => bpc = "done"

\* a step of the program itself (time passing aside) can be taken
CanStep ==
    ENABLED ((\E i \in 1..MaxBatch : AskStep(i))
             \/ (BatchStart /\ UNCHANGED nonStreamVars)
             \/ (BatchMerge /\ UNCHANGED nonStreamVars))

\* C2 as stated: a finished stream, of ask_stream or of batch_ask_stream on
\* any list, has a last event, of type Complete or Error, and no stream stops
\* before it is finished.
C2_StreamsEndWell ==
    /\ Terminated \/ CanStep
    /\ \A i \in 1..N : ask[i].pc = "done" => EndsWell(ask[i].out)
    /\ BatchDone => EndsWell(bout)

\* C2 as amended: the same for ask_stream and for batch_ask_stream on a
\* non-empty list; on the empty list batch_ask_stream returns at once and
\* delivers no event.
C2_StreamsEndWellNonEmpty ==
    /\ Terminated \/ CanStep
    /\ \A i \in 1..N : ask[i].pc = "done" => EndsWell(ask[i].out)
    /\ BatchDone /\ questions # <<>> => EndsWell(bout)
    /\ BatchDone /\ questions = <<>> => bout = <<>>

\* a batch of the largest size is finished, one of its questions having ended in Error
C2_Witness ==
    /\ BatchDone /\ N = MaxBatch
    /\ Last(bout).type = "complete"
    /\ \E i \in 1..N : Last(ask[i].out).type = "error"
    /\ \E i \in 1..N : Last(ask[i].out).type = "complete"

\* question i's execution failed: the qa_chain was missing, retrieval raised,
\* or the grounded generation raised and the answer was not handed to the
\* fallback (a raising fallback generation is absorbed: the question
\* completes with the fallback message)
Failed(i) ==
    \/ ask[i].failure \in {"qa_chain", "retrieval"}
    \/ ask[i].failure = "generation" /\ ~ask[i].fallback

\* the events of the merged stream tagged with question i, in stream order
Of(i, evs) == SelectSeq(evs, LAMBDA e : e.idx = i)

----------------------------------------------------------------------------
(* Properties of the corpus synchronisation *)

\* the last pass has returned and the directory is as it was when it started
PassDone == spc = "idle" /\ passes > 0 /\ ~dirty

Texts(entries) == [j \in DOMAIN entries |-> entries[j].text]

\* C4: when sync runs twice in succession with no change of the directory
\* (and no failed read) since the first pass started, the second pass has an
\* empty plan, inserts nothing, deletes nothing and does not rebuild the
\* lexical retriever.
C4_SyncIdempotent ==
    quiet = 2 => PlanEmpty(plan) /\ muts = 0 /\ ~rebuilt

C6_ModifiedIsReplaced ==
    PassDone =>
        \A k \in DOMAIN plan.modified :
            LET p == plan.modified[k]
                cur == EntriesOf(index, p)
                old == EntriesOf(index0, p)
            IN  /\ Texts(cur) = Split(fs[p].content)
                /\ \A j \in DOMAIN cur :
                      old[1].category # NoCategory => cur[j].category = old[1].category

\* C7: when a read of a file failed during a pass (in the classification,
\* in the update of a modified file or in the load of a new file), every
\* entry the collection held for that file when the pass started is still
\* there.
C7_FailureKeepsRecord ==
    \A p \in failed :
        \A j \in DOMAIN EntriesOf(index0, p) :
            \E i \in DOMAIN index :
                [index[i] EXCEPT !.stamp = 0] = EntriesOf(index0, p)[j]

----------------------------------------------------------------------------
(* Properties of the merged batch stream *)

\* the questions of the batch whose own stream ended in Complete
EndedInComplete == {i \in 1..N : Last(ask[i].out).type = "complete"}

\* C11: the total_processed of the final Complete event of a batch is the
\* number of questions whose own stream ended in Complete (a question whose
\* stream ended in Error is not counted).
C11_CountsMatchOutcomes ==
    BatchDone /\ N > 0 => Last(bout).processed = Cardinality(EndedInComplete)

\* C12: in the stream of a finished batch, the events of each question are
\* in the order in which its ask_stream yielded them, and the timestamps of
\* the whole stream never decrease.
C12_MergedOrder ==
    BatchDone =>
        /\ \A i \in 1..N : SelectSeq(bout, LAMBDA e : e.by = i) = ask[i].out
        /\ \A k \in 1..(Len(bout) - 1) : bout[k].ts <= bout[k + 1].ts

\* a finished batch whose merge moved an event of the second question in
\* front of a later event of the first
C12_Witness ==
    /\ BatchDone
    /\ \E j, k \in 1..Len(bout) :
          /\ j < k
          /\ bout[j].by = 2 /\ bout[k].by = 1
          /\ bout[j].ts < bout[k].ts

\* C13 as stated: every event of a batch stream carries the index of the
\* question that produced it and the number of questions.
C13_EveryEventTagged ==
    mode = "batch" =>
        \A k \in 1..Len(bout) :
            /\ bout[k].idx \in 1..N
            /\ bout[k].idx = bout[k].by
            /\ bout[k].total = N

\* C13: every event of a batch stream that a question's ask_stream yielded
\* carries the index of that question and the number of questions; the
\* events batch_ask_stream yields itself (the opening Processing, the final
\* Complete) carry no index.
C13_QuestionEventsTagged ==
    mode = "batch" =>
        \A k \in 1..Len(bout) :
            IF bout[k].by = 0
            THEN bout[k].idx = 0 /\ bout[k].type \in {"processing", "complete"}
                 /\ (k = 1 \/ k = Len(bout))
            ELSE /\ bout[k].idx \in 1..N
                 /\ bout[k].idx = bout[k].by
                 /\ bout[k].total = N

\* a finished batch of two questions, with events of both in its stream
C13_Witness ==
    /\ BatchDone
    /\ N = 2
    /\ \E j, k \in 1..Len(bout) : bout[j].idx = 1 /\ bout[k].idx = 2

----------------------------------------------------------------------------
(* Properties of the chunk ids and of the lexical retriever *)

\* the largest ordinal a chunk of a file can have
MaxOrdinal == 1

\* C18: every chunk a pass inserts, for a new file as for a modified one,
\* carries the id built from the hash of its source path and its ordinal in
\* the split of the file (a new one-chunk file a.txt gets hash("a.txt")_0).
C18_ChunkIdFromPathAndOrdinal ==
    \A k \in DOMAIN index :
        \E i \in 0..MaxOrdinal :
            index[k].chunk_id = ChunkIdByPosition(index[k].source, i)

\* C20: once a pass with a non-empty plan has returned, the lexical
\* retriever serves exactly the chunks the collection holds, also when the
\* deletions of the pass left the collection empty.
C20_LexicalMatchesCollection ==
    (PassDone /\ ~PlanEmpty(plan) /\ ~raised) =>
        Range(bm25) = Range(Docs(index))

----------------------------------------------------------------------------
(* Properties of the conversational memory *)

\* C19: a question answered with memory enabled, whose stream ended in
\* Complete with a non-empty answer and without a failed call, has left
\* exactly one turn in the memory, holding the final answer and the tag of
\* the path that produced it.
C19_OneTurnPerQuestion ==
    (/\ mode = "single"
     /\ MemoryOn
     /\ questions[1] # ""
     /\ ask[1].pc = "done"
     /\ ask[1].failure = "none"
     /\ Last(ask[1].out).type = "complete"
     /\ Strip(ask[1].answer) # <<>>)
    => /\ Len(memory) = 1
       /\ memory[1].question = questions[1]
       /\ memory[1].answer = Strip(ask[1].answer)
       /\ memory[1].source = IF ask[1].fallback THEN "llm_knowledge"
                             ELSE "knowledge_base"

----------------------------------------------------------------------------
(* Properties of the retrieval stage *)

RetrieveDone == rcall = "retrieve" /\ rpc = "returned"

\* the corpus holds no chunk of a category the caller asked for
ScopedCorpusEmpty == categories # <<>> /\ CategoryDocuments(categories) = <<>>

\* C14: a retrieval scoped to categories none of whose chunks is indexed
\* returns no candidate.
C14_EmptyScopeGivesNothing ==
    (RetrieveDone /\ ScopedCorpusEmpty) => retrieved = <<>>

\* C15: the list _rewrite_query returns starts with the original query,
\* whatever text the generation call returned; when the call raised, the
\* list is the original query alone; the function returns in every case.
C15_OriginalQueryFirst ==
    (rcall = "rewrite" /\ rpc = "returned") =>
        /\ queries # <<>>
        /\ queries[1] = original
        /\ ~response.ok => queries = <<original>>
        /\ ~surfaced

\* a numbered answer of the generation call was read as a second query
C15_Witness ==
    /\ rcall = "rewrite"
    /\ rpc = "returned"
    /\ response.ok
    /\ Len(response.content) > 1
    /\ IsDigit(response.content[1])
    /\ Len(queries) = 2
    /\ queries[2] = original

\* the generation call raised and the function returned
C15_WitnessFailure ==
    /\ rcall = "rewrite"
    /\ rpc = "returned"
    /\ ~response.ok

\* the lists the variants returned, one after the other in query order
AllHits == Flatten([k \in DOMAIN hits |-> hits[k].docs], Len(hits))

\* the elements of s at the positions in I, in their order
RECURSIVE KeepAt(_, _)
KeepAt(s, I) ==
    IF s = <<>> THEN <<>>
    ELSE KeepAt(Front(s), I) \o (IF Len(s) \in I THEN <<Last(s)>> ELSE <<>>)

\* s without the elements whose content occurs earlier in s
FirstSeen(s) ==
    KeepAt(s, {j \in DOMAIN s : \A i \in 1..(j - 1) : s[i].text # s[j].text})

\* C16: the merger returns the concatenation of the variants' lists, in
\* query order and rank order, without the documents whose content occurs
\* earlier in it; sequentially and under gather, in whatever order the
\* retrievals finish.
C16_MergeKeepsFirstSeen ==
    RetrieveDone => retrieved = FirstSeen(AllHits)

\* under gather, a later variant finished before an earlier one, both
\* returned the same content, and the merge dropped the later variant's copy
C16_Witness ==
    /\ RetrieveDone
    /\ concurrent
    /\ Len(hits) = 3
    /\ hits[3].at < hits[1].at
    /\ Len(AllHits) > Len(retrieved)
    /\ Len(retrieved) >= 2
    /\ \E j, k \in DOMAIN hits :
          /\ j < k
          /\ \E a \in DOMAIN hits[j].docs, b \in DOMAIN hits[k].docs :
                hits[j].docs[a].text = hits[k].docs[b].text

\* C17: when the scorer raised, generation gets the first RERANKER_TOP_N
\* candidates in their order before reranking, and the caller sees no
\* exception and no ERROR event, with rewriting on or off, with or without
\* categories.
C17_ScorerFailureFallsBack ==
    (rcall = "gate" /\ rpc = "returned" /\ ~scorerOk) =>
        /\ finalDocs = Take(retrieved, RERANKER_TOP_N)
        /\ ~surfaced

----------------------------------------------------------------------------
(* Properties of the memory manager *)

\* the buffer after an add_conversation
AfterAdd == added # NoTurn

\* C21: after every add, a buffer of more turns than the floor of
\* MIN_CONVERSATION_ROUNDS holds at most SHORT_TERM_MEMORY_MAX_LENGTH
\* characters.
C21_MemoryWithinBudget ==
    Len(memory) > MIN_CONVERSATION_ROUNDS =>
        TotalChars(memory) <= SHORT_TERM_MEMORY_MAX_LENGTH

\* an add evicted a turn and left more turns than the floor
C21_Witness ==
    /\ AfterAdd
    /\ Len(memory) <= Len(prior)
    /\ Len(memory) > MIN_CONVERSATION_ROUNDS
    /\ TotalChars(prior) + QuestionLen(added.question) + Len(added.answer)
          > SHORT_TERM_MEMORY_MAX_LENGTH

\* C22: an add leaves a suffix of the old buffer followed by the new turn:
\* turns are removed from the oldest end only, the new turn is kept, and
\* the buffer is not cut below the floor.
C22_EvictionKeepsFloor ==
    AfterAdd =>
        /\ memory # <<>>
        /\ Last(memory) = added
        /\ Len(memory) <= Len(prior) + 1
        /\ Front(memory) = SubSeq(prior, Len(prior) - Len(memory) + 2, Len(prior))
        /\ Len(memory) >= Min(MIN_CONVERSATION_ROUNDS, Len(prior) + 1)

\* an add evicted down to the floor and the buffer is still over budget
C22_Witness ==
    /\ AfterAdd
    /\ prior # <<>>
    /\ Len(memory) = MIN_CONVERSATION_ROUNDS
    /\ TotalChars(memory) > SHORT_TERM_MEMORY_MAX_LENGTH

\* the grounded generation of question j ended and saved its answer
GroundedSaved(j) ==
    /\ MemoryOn
    /\ ask[j].buf # <<>>
    /\ Last(ask[j].buf).type = "end"
    /\ Assemble(ask[j].buf) # <<>>

\* the fallback generation of question j raised
FallbackRaised(j) ==
    \E k \in DOMAIN ask[j].out :
        ask[j].out[k].type = "chunk" /\ ask[j].out[k].data = FallbackMessage

\* the fallback of question j is over and saved its answer
FallbackSaved(j) ==
    /\ MemoryOn
    /\ questions[j] # ""
    /\ ask[j].fallback
    /\ ask[j].pc \in {"complete", "done"}
    /\ FallbackRaised(j) \/ ask[j].answer # <<>>

\* the turns question j has persisted, as a context shows them
PersistedBy(j) ==
    (IF GroundedSaved(j)
     THEN {[question |-> questions[j], answer |-> Strip(Assemble(ask[j].buf))]}
     ELSE {})
    \cup
    (IF FallbackSaved(j)
     THEN {[question |-> questions[j],
            answer |-> IF FallbackRaised(j) THEN FallbackMessage
                       ELSE Strip(ask[j].answer)]}
     ELSE {})

----------------------------------------------------------------------------
(* Properties of the start of the service *)

ConfigurationMissing == ~(boot.apiKey /\ boot.baseUrl /\ boot.modelName)

\* C24: when the API key, the base URL or the model name is missing, the
\* constructor raises before the vector store is loaded and before the QA
\* chain is built, and the service never handles a request.
C24_ConfigurationFailureIsFatal ==
    ConfigurationMissing =>
        /\ ~boot.storeLoaded
        /\ ~boot.qaChainBuilt
        /\ ~boot.pipeline
        /\ boot.served = 0
        /\ boot.pc = "listening" => boot.raised

\* the models loaded, the base URL was missing, and the service has
\* answered a request with 503
C24_Witness ==
    /\ boot.apiKey
    /\ ~boot.baseUrl
    /\ boot.modelsOk
    /\ boot.pc = "listening"
    /\ boot.raised
    /\ boot.refused > 0

----------------------------------------------------------------------------
(* Properties of the delivery of the answer *)

\* C25: with a streaming generation service, a chunk of the grounded answer
\* is with the caller as soon as its fragment has arrived: while the
\* generation call is still running, every chunk produced so far has been
\* yielded by ask_stream.
C25_ChunksDeliveredAsProduced ==
    \A i \in 1..N :
        (hasAstream /\ ask[i].pc = "kb") =>
            \A k \in DOMAIN ask[i].buf :
                ask[i].buf[k].type = "chunk" =>
                    \E j \in DOMAIN ask[i].out : ask[i].out[j] = ask[i].buf[k]

----------------------------------------------------------------------------
(* Properties of the fan-out *)

\* C26: every query is searched, by the vector and by the lexical
\* retriever, with the k of its position: RETRIEVER_TOP_K for the original
\* query and REWRITE_QUERY_TOP_K for a rewritten one, however the
\* retrievals interleave.
C26_EachQueryItsOwnK ==
    \A i \in DOMAIN fan.tasks :
        fan.tasks[i].pc = "done" =>
            /\ fan.tasks[i].usedVector = KForQuery(i - 1)
            /\ fan.tasks[i].usedLexical = KForQuery(i - 1)

----------------------------------------------------------------------------
(* Properties of the calls of the generation service *)

LlmCalls(i) == ask[i].calls.astream + ask[i].calls.invoke

\* the ask_stream call has ended after reaching a generation call, with
\* query rewriting off
GeneratedWithoutRewriting(i) ==
    /\ ~rewriting
    /\ ask[i].pc = "done"
    /\ ask[i].failure \notin {"qa_chain", "retrieval"}

\* the answer of the grounded call carried the refusal phrase
GroundedRefused(i) ==
    ask[i].ndocs > 0 /\ Contains(Assemble(ask[i].buf), RefusalPhrase)

----------------------------------------------------------------------------
(* Properties of the index entries of a file *)

\* C28: once a pass has returned, no chunk of a file is held by more than
\* one entry of the collection: no two entries have the same source and the
\* same text, also for a file that several data sources list.
C28_EachFileIndexedOnce ==
    PassDone =>
        \A i, j \in DOMAIN index :
            (index[i].source = index[j].source /\ index[i].text = index[j].text)
                => i = j

\* C29: the file hash in the metadata of an entry is the hash of the
\* content the entry's chunk was split from, also when the file is written
\* between the read that loads it and the read that fingerprints it.
C29_HashOfIndexedContent ==
    \A i \in DOMAIN index :
        index[i].file_hash # NoHash =>
            index[i].text \in Range(Split(index[i].file_hash[2]))

----------------------------------------------------------------------------
(* Properties of overlapping passes *)

BothPassesDone == \A t \in DOMAIN passTask : passTask[t].pc = "done"

\* what one pass leaves: of every file the chunks of its content, of a
\* missing file nothing
AsOnePassLeaves ==
    \A p \in PathSet :
        Texts(EntriesOf(index, p)) =
            IF fs[p].exists THEN Split(fs[p].content) ELSE <<>>

\* C30: when two passes that ran on the same pipeline have both returned,
\* the collection is as one pass leaves it, however their classification,
\* delete and insert steps interleaved; no chunk of a file is there twice.
C30_TwoPassesAsOne ==
    (passTask # <<>> /\ BothPassesDone) => AsOnePassLeaves

----------------------------------------------------------------------------
(* The concurrent pass against the sequential one *)

\* pipeline.py lines 634-641: the sequential loop over the deleted files
RECURSIVE SequentialDeletes(_, _)
SequentialDeletes(idx, ps) ==
    IF ps = <<>> THEN idx
    ELSE SequentialDeletes(DeleteDocumentsBySource(idx, Head(ps)), Tail(ps))

\* pipeline.py lines 643-650 with 688-747: the sequential loop over the
\* modified files, every read succeeding; an update that finds no entry of
\* its file returns False and adds nothing
RECURSIVE SequentialUpdates(_, _)
SequentialUpdates(idx, ps) ==
    IF ps = <<>> THEN idx
    ELSE LET p == Head(ps)
             cat == GetSourceConfigForFile(p, ScanEnterpriseFiles).category
             next == IF EntriesOf(idx, p) = <<>> THEN idx
                     ELSE DeleteDocumentsBySource(idx, p) \o UpdateChunks(p, TRUE, cat, 0)
         IN  SequentialUpdates(next, Tail(ps))

Count(seq, e) == Cardinality({k \in DOMAIN seq : seq[k] = e})

\* the same entries, each as often, in any order
SameEntries(a, b) == \A e \in Range(a) \cup Range(b) : Count(a, e) = Count(b, e)

\* the deletes and the updates of the pass have returned, no read failed,
\* and the new files are still to be processed
UpdatesReturned ==
    /\ spc = "new" \/ (spc = "rebuild" /\ plan.new = <<>>)
    /\ failed = {}

\* C31: when the deletes and updates of an async pass have returned, the
\* collection holds the entries the sequential pass leaves when it applies
\* the same plan to the same collection, however the tasks interleaved.
C31_ConcurrentAsSequential ==
    (variant = "async" /\ UpdatesReturned) =>
        SameEntries(index,
                    SequentialUpdates(SequentialDeletes(index0, plan.deleted),
                                      plan.modified))

----------------------------------------------------------------------------
(* Properties of the classification *)

\* the files the scan lists and the sources the collection held when the
\* running (or the last) pass classified
Listed == Range(AllCurrentFiles(ScanEnterpriseFiles))
Stored == {index0[k].source : k \in DOMAIN index0}

\* the directory is as the last classification saw it
Classified == passes > 0 /\ ~dirty

C33_OrphansCleaned ==
    PassDone => \A k \in DOMAIN index : index[k].source \in Listed

----------------------------------------------------------------------------
(* Properties of the PromptManager *)

\* C34: whatever calls were made, every load_prompt of a name since its
\* last save_prompt returned the stripped content of that save, every
\* get_template since then returned the template of the same content, and
\* the loads of a name that no save separates returned one content.
C34_PromptCacheCoherent ==
    \A n \in PromptNames :
        /\ Cardinality(pm.loads[n]) <= 1
        /\ pm.saved[n] # {} =>
              /\ pm.loads[n] \subseteq {Strip(c) : c \in pm.saved[n]}
              /\ pm.templates[n] \subseteq {Template(Strip(c)) : c \in pm.saved[n]}

\* a prompt whose template was cached was saved with padded text, and both
\* the load and the template after the save show the stripped new text
C34_Witness ==
    \E n \in PromptNames :
        /\ pm.saved[n] = {<<" ", "x">>}
        /\ pm.loads[n] = {<<"x">>}
        /\ pm.templates[n] = {Template(<<"x">>)}
        /\ pm.promptCache[n] # {}

----------------------------------------------------------------------------
(* Properties of ask_stream without a chain, without memory, and of what it saves *)

\* C35: on a pipeline without a QA chain, ask_stream never gets to the
\* retrieval or to a generation, makes no call of the generation service and
\* writes no turn, and when it has ended it has yielded one Error event and
\* nothing else.
C35_NoChainOnlyError ==
    \A i \in 1..N :
        (mode = "single" /\ ~qaChain) =>
            /\ ask[i].pc \in {"start", "done"}
            /\ LlmCalls(i) = 0
            /\ ask[i].ndocs = 0
            /\ memory = <<>>
            /\ ask[i].pc = "done" => ask[i].out = <<Ev(i, "error", <<>>)>>

C35_Witness ==
    /\ mode = "single"
    /\ ~qaChain
    /\ ask[1].pc = "done"
    /\ Types(ask[1].out) = <<"error">>

\* C36: an ask_stream call with use_memory = False adds no turn to the
\* memory and builds no prompt from its context, on the grounded path, on
\* the fallback path and when a generation fails.
C36_NoMemoryNoTrace ==
    \A i \in 1..N :
        (mode = "single" /\ ~useMemory) =>
            /\ memory = <<>>
            /\ ask[i].reads = <<>>

\* without memory, a question got an answer after its first generation
\* failed or refused
C36_Witness ==
    /\ mode = "single"
    /\ ~useMemory
    /\ ask[1].pc = "done"
    /\ ask[1].fallback
    /\ ask[1].ndocs > 0
    /\ ask[1].answer # <<>>

\* C37: when an ask_stream call with memory has ended and a turn of its
\* question is in the memory, the answer of the turn is, up to surrounding
\* whitespace, the concatenation of the chunks the call delivered.
C37_SavedIsDelivered ==
    \A i \in 1..N :
        (mode = "single" /\ MemoryOn /\ ask[i].pc = "done" /\ memory # <<>>) =>
            Strip(memory[Len(memory)].answer) = Strip(Assemble(ask[i].out))

----------------------------------------------------------------------------
(* Properties of the chunk ids across the collection *)

\* C38: no two entries of the collection carry the same chunk id, be they
\* chunks of one file (also chunks of the same text) or of different files,
\* inserted as new or as modified.
C38_ChunkIdsUnique ==
    \A i, j \in DOMAIN index :
        index[i].chunk_id = index[j].chunk_id => i = j

----------------------------------------------------------------------------
(* Properties of the event loop *)

\* the steps that compute or block: splitting, chunk-id hashing, reading
\* and hashing files, the calls of the store, retrieval, reranking and the
\* blocking generation call
CpuOrBlocking ==
    {"vector_store.get", "vector_store.delete", "loader.load", "_get_file_info_sync",
     "split_documents", "chunk_id", "add_documents", "llm.invoke",
     "hybrid_retriever.invoke", "compress_documents"}

\* C39: no computing or blocking step of the async sync pass or of
\* ask_stream runs on the event loop that dispatches the coroutines; each
\* of them runs on the worker pool.
C39_NoBlockingStepOnLoop ==
    \A t \in DOMAIN run.task :
        run.task[t].at = "inline" => CurStep(t).name \notin CpuOrBlocking
====
